---- MODULE Spec2Model ----
(***************************************************************************)
(* BigQuery dataset discovery, access validation and multi-dataset table   *)
(* aggregation of the setup layer (bigqueryDatasetService.ts,              *)
(* metadataService.ts and the discovery API handler).                      *)
(*                                                                         *)
(* Texts are sequences of character codes, so that base64 and JSON are     *)
(* computed the way Buffer.from(.., 'base64'), Buffer.toString() and       *)
(* JSON.parse / JSON.stringify compute them.                               *)
(***************************************************************************)
EXTENDS Integers, Sequences, FiniteSets, TLC

\* ------------------------------------------------------------------- state
\* validateMultipleDatasetAccess (BigQueryDatasetService)
VARIABLES
  vIds,     \* datasetIds, the list to validate
  vCreds,   \* the credentials argument
  vTask,    \* per position: "import" | "metadata" (awaiting) | "true" | "false" | "threw"
  vCause,   \* per position: what decided the call ("pending" until then)
  vOrder,   \* the positions in the order their calls completed
  vResult   \* the promise of validateMultipleDatasetAccess

\* listTablesFromDatasets (DataSourceMetadataService)
VARIABLES
  tSource,  \* project.type
  tIds,     \* datasetIds
  tFetch,   \* per position: the provider's answer to getTables for that dataset
  tPart,    \* per position: what the per-dataset task returned (or that it threw)
  tOut      \* the promise of listTablesFromDatasets

\* dataset discovery (BigQueryDatasetService.discoverDatasets, the metadata
\* service's discoverDatasets in front of it, and the discovery API handler)
VARIABLES
  dEntry,   \* the function called: "service" | "metadata" | "handler"
  dInput,   \* its arguments
  dPc,      \* where the call stands
  dCreds,   \* the credentials argument of the service's discoverDatasets
  dFailure, \* what failed: the credential step that failed, the error caught
  dListed,  \* the datasets that getDatasets enumerated
  dMeta,    \* per enumerated dataset: its getMetadata call
  dResult   \* what the caller got

\* One service-account key handed to discoverDatasets in both encodings.
VARIABLES
  cFields,    \* the key's fields: <<name, value>> texts in order
  cForm,      \* how its JSON text is written: "compact" or "keyfile"
  cPlain,     \* what decoding the JSON text gave
  cBase64     \* what decoding the base64 of the JSON text gave

\* useSetupFlow: the orchestrator hook, with one handleConnectionCreated and
\* one handleDatasetSelection that may run at the same time.
VARIABLES
  fState,       \* the SetupFlowState held by useState
  fDiscovering, \* loading flag of the DISCOVER_DATASETS lazy query
  fFetching,    \* loading flag of the LIST_TABLES_FROM_DATASETS lazy query
  fConn,        \* handleConnectionCreated: "idle" | "awaiting" | "finally"
  fSel,         \* handleDatasetSelection: "idle" | "validating" | "fetching" | "finally"
  fSelIds,      \* its datasetIds argument
  fAccess,      \* its accessResult, once validateAccess returned
  fIssued,      \* the datasetIds of the table requests it issued
  fVia          \* the handler it was entered through: "none" | "selection" | "manual"

\* SelectModels: the select-models page.
VARIABLES
  pVersion,  \* which of the page's two definitions is rendered
  pProps,    \* the props of the last render
  pSelected, \* its selectedDatasets state
  pManual,   \* its manualDatasets state
  pPicked,   \* the tables value of its form
  pNext      \* the data of the last onNext call

\* DataSourceMetadataService.validateDatasetAccess(project, datasetIds)
VARIABLES
  aSource,  \* project.type
  aIds,     \* datasetIds
  aStored,  \* connectionInfo.credentials as stored
  aPc,      \* "start" | "checking" | "done"
  aCreds,   \* parsedCredentials, once extracted
  aTask,    \* per position: "pending" | "true" | "false"
  aCause,   \* per position: why the check ended as it did
  aResult   \* the promise returned

\* useSetupModelsWithDatasets: the hook of the models page, which drives the
\* setup flow above.
VARIABLES
  mType,     \* the project's data source type
  mProject,  \* whether onboardingData holds the projectId
  mStored,   \* local storage wren:selectedDatasets (<< >> when absent)
  mCall,     \* processing of the stored ids: "none" | "running" | "processed" | "failed"
  mFallback, \* the plain table query: "idle" | "loading" | "loaded"
  mSettings, \* whether settingsData holds the data source
  mDiscoveries \* discovery requests the page has started since it was mounted

\* BigQueryProperties: the BigQuery fields of the connection form.
VARIABLES
  bMode,        \* props.mode: "CREATE" | "EDIT"
  bProjectId,   \* the form's projectId ("" when empty)
  bCredentials, \* the form's credentials: an uploaded key file, or "none"
  bLocal,       \* localState
  bValidating,  \* the form's bq_discoveryValidating: "undefined" | "true" | "false"
  bRequests     \* the fetches started by triggerDiscovery, in order of start

\* useSetupFlow with overlapping calls of its action functions.
VARIABLES
  rState,   \* the SetupFlowState
  rCalls,   \* the calls of the action functions, in order of invocation
  rFetches, \* table requests started so far
  rQuiet,   \* resetState has run and no action function was called since
  rOverlap  \* a selection was called while an earlier one was in flight

vVars == <<vIds, vCreds, vTask, vCause, vOrder, vResult>>
tVars == <<tSource, tIds, tFetch, tPart, tOut>>
dVars == <<dEntry, dInput, dPc, dCreds, dFailure, dListed, dMeta, dResult>>
cVars == <<cFields, cForm, cPlain, cBase64>>
mVars == <<mType, mProject, mStored, mCall, mFallback, mSettings, mDiscoveries>>
aVars == <<aSource, aIds, aStored, aPc, aCreds, aTask, aCause, aResult>>
pVars == <<pVersion, pProps, pSelected, pManual, pPicked, pNext>>
fVars == <<fState, fDiscovering, fFetching, fConn, fSel, fSelIds, fAccess, fIssued, fVia>>
bVars == <<bMode, bProjectId, bCredentials, bLocal, bValidating, bRequests>>
rVars == <<rState, rCalls, rFetches, rQuiet, rOverlap>>
vars == <<vVars, tVars, dVars, cVars, fVars, pVars, aVars, mVars, bVars, rVars>>

\* ------------------------------------------------------------------ bounds
\* longest datasetIds list handed to validation
MaxIds == 3
\* longest datasetIds list handed to table aggregation
MaxDatasets == 2
\* longest table listing the metadata provider returns for one dataset
MaxTables == 2
\* most datasets that getDatasets enumerates
MaxListed == 2
\* most fields of a service-account object whose decoding is checked
MaxFields == 2
\* Datasets of one validation when the batches are looked at together.
MaxBatch == 2
\* most discovery requests the connection form starts
MaxRequests == 3
\* most discovery requests the models page starts per mount
MaxDiscoveries == 2
\* most calls of the action functions when calls overlap
MaxCalls == 2

\* ------------------------------------------------------------ characters
\* The printable ASCII characters in code order, starting at code 32.
Printable ==
  << " ", "!", "\"", "#", "$", "%", "&", "'", "(", ")", "*", "+", ",", "-", ".", "/",
     "0", "1", "2", "3", "4", "5", "6", "7", "8", "9", ":", ";", "<", "=", ">", "?",
     "@", "A", "B", "C", "D", "E", "F", "G", "H", "I", "J", "K", "L", "M", "N", "O",
     "P", "Q", "R", "S", "T", "U", "V", "W", "X", "Y", "Z", "[", "\\", "]", "^", "_",
     "grave", "a", "b", "c", "d", "e", "f", "g", "h", "i", "j", "k", "l", "m", "n", "o",
     "p", "q", "r", "s", "t", "u", "v", "w", "x", "y", "z", "{", "|", "}", "~" >>

\* The code of a one-character string.
CodeOf(c) == 31 + (CHOOSE i \in 1..Len(Printable) : Printable[i] = c)

\* A text written as a sequence of one-character strings, as character codes.
Codes(cs) == [i \in 1..Len(cs) |-> CodeOf(cs[i])]

\* What Buffer.toString() gives for a byte that is not ASCII: a code point
\* beyond ASCII (a multi-byte character or U+FFFD).
NonAscii == 65533

\* The element of a one-element set. Writing  The({F(x) : x \in {e}})  computes
\* e once and hands its value to F, however often F refers to x.
The(S) == CHOOSE x \in S : TRUE

\* --------------------------------------------------------------- base64
\* The value of a base64 (or base64url) character, -1 for any other.
Unbase64(c) ==
  IF c >= 65 /\ c <= 90 THEN c - 65
  ELSE IF c >= 97 /\ c <= 122 THEN c - 71
  ELSE IF c >= 48 /\ c <= 57 THEN c + 4
  ELSE IF c = 43 \/ c = 45 THEN 62
  ELSE IF c = 47 \/ c = 95 THEN 63
  ELSE -1

\* The least index from i on whose character is in S, and Len(s) + 1 when
\* there is none.
FirstIn(s, i, S) ==
  CHOOSE k \in i..(Len(s) + 1) :
    /\ k = Len(s) + 1 \/ s[k] \in S
    /\ \A m \in i..(k - 1) : s[m] \notin S

\* The least index from i on whose character is not in S.
FirstNotIn(s, i, S) ==
  CHOOSE k \in i..(Len(s) + 1) :
    /\ k = Len(s) + 1 \/ s[k] \notin S
    /\ \A m \in i..(k - 1) : s[m] \in S

\* The text up to its first padding character, where the decoder stops.
UpToPad(s) ==
  The({SubSeq(t, 1, FirstIn(t, 1, {61}) - 1) : t \in {s}})

\* The 6-bit values of the legal characters; illegal characters are skipped.
Sextets(s) ==
  The({[i \in 1..Len(legal) |-> Unbase64(legal[i])] :
         legal \in {SelectSeq(UpToPad(s), LAMBDA c : Unbase64(c) >= 0)}})

\* Groups of four sextets give three bytes; a last group of three gives two
\* bytes, of two gives one, of one gives none.
DecodedLength(n) ==
  3 * (n \div 4) + (IF n % 4 = 3 THEN 2 ELSE IF n % 4 = 2 THEN 1 ELSE 0)

\* Byte r (0, 1 or 2) of the group of sextets that starts after index g.
DecodedByte(q, g, r) ==
  IF r = 0 THEN (q[g + 1] * 4 + (q[g + 2] \div 16)) % 256
  ELSE IF r = 1 THEN ((q[g + 2] % 16) * 16 + (q[g + 3] \div 4)) % 256
  ELSE ((q[g + 3] % 4) * 64 + q[g + 4]) % 256

DecodeGroups(sextets) ==
  The({[i \in 1..DecodedLength(Len(q)) |->
          DecodedByte(q, 4 * ((i - 1) \div 3), (i - 1) % 3)] :
         q \in {sextets}})

\* Buffer.toString(): UTF-8 decoding of the bytes.
Utf8ToString(bytes) ==
  The({[i \in 1..Len(b) |-> IF b[i] < 128 THEN b[i] ELSE NonAscii] :
         b \in {bytes}})

\* Buffer.from(s, 'base64').toString(): never throws on a string.
Base64DecodeToString(s) == Utf8ToString(DecodeGroups(Sextets(s)))

\* The base64 character of a 6-bit value.
Base64Char(v) ==
  IF v < 26 THEN 65 + v
  ELSE IF v < 52 THEN 71 + v
  ELSE IF v < 62 THEN v - 4
  ELSE IF v = 62 THEN 43 ELSE 47

\* Character r (0 to 3) of the group that encodes the bytes after index g;
\* a missing byte counts as zero and its characters are padding.
EncodedChar(b, g, r) ==
  LET b1 == b[g + 1]
      b2 == IF g + 2 <= Len(b) THEN b[g + 2] ELSE 0
      b3 == IF g + 3 <= Len(b) THEN b[g + 3] ELSE 0
  IN  IF r = 0 THEN Base64Char(b1 \div 4)
      ELSE IF r = 1 THEN Base64Char((b1 % 4) * 16 + (b2 \div 16))
      ELSE IF r = 2 THEN
        (IF g + 2 > Len(b) THEN 61 ELSE Base64Char((b2 % 16) * 4 + (b3 \div 64)))
      ELSE (IF g + 3 > Len(b) THEN 61 ELSE Base64Char(b3 % 64))

\* Standard base64 with padding of an ASCII text (one byte per character):
\* the form in which a service-account key is handed over base64-encoded.
Base64Encode(bytes) ==
  The({[k \in 1..(4 * ((Len(b) + 2) \div 3)) |->
          EncodedChar(b, 3 * ((k - 1) \div 4), (k - 1) % 4)] :
         b \in {bytes}})

\* ----------------------------------------------------------------- JSON
\* JSON values: [t |-> "obj", v |-> the <<key text, value>> pairs in order],
\* [t |-> "arr", v |-> a sequence of values], [t |-> "str", v |-> the text],
\* [t |-> "num", v |-> the lexeme], [t |-> "lit", v |-> the literal's text].
JStr(text) == [t |-> "str", v |-> text]

\* The outcome of a parse step: the value and the index after it, or failure
\* (JSON.parse throws a SyntaxError).
ParseFail == [ok |-> FALSE, val |-> [t |-> "none", v |-> << >>], pos |-> 0]
ParseOk(val, pos) == [ok |-> TRUE, val |-> val, pos |-> pos]

WhiteSpace == {32, 9, 10, 13}
DigitChars == 48..57
IsWs(c) == c \in WhiteSpace
IsDigit(c) == c \in DigitChars
IsHex(c) == IsDigit(c) \/ (c >= 65 /\ c <= 70) \/ (c >= 97 /\ c <= 102)
HexVal(c) == IF IsDigit(c) THEN c - 48 ELSE IF c <= 70 THEN c - 55 ELSE c - 87

\* The index after the white space that starts at i.
SkipWs(s, i) == FirstNotIn(s, i, WhiteSpace)

\* The index after the run of digits that starts at i.
Digits(s, i) == FirstNotIn(s, i, DigitChars)

\* The character an escape letter stands for, -1 when it is no escape.
EscapeOf(e) ==
  IF e = 34 \/ e = 92 \/ e = 47 THEN e
  ELSE IF e = 98 THEN 8
  ELSE IF e = 102 THEN 12
  ELSE IF e = 110 THEN 10
  ELSE IF e = 114 THEN 13
  ELSE IF e = 116 THEN 9
  ELSE -1

\* A string's characters from index j (after the opening quote) to its
\* closing quote: the plain characters up to index e, then the quote, or an
\* escape and the rest.
RECURSIVE ParseStringBody(_, _, _)
RECURSIVE StringBodyAt(_, _, _)
ParseStringBody(s, j, acc) ==
  The({The({StringBodyAt(s, e, a) : a \in {acc \o SubSeq(s, j, e - 1)}}) :
         e \in {FirstIn(s, j, {34, 92} \cup 0..31)}})

StringBodyAt(s, j, acc) ==
  IF j > Len(s) THEN ParseFail
  ELSE IF s[j] = 34 THEN ParseOk(JStr(acc), j + 1)
  ELSE IF s[j] < 32 THEN ParseFail
  ELSE IF j + 1 > Len(s) THEN ParseFail
  ELSE IF s[j + 1] = 117 THEN
    IF j + 5 <= Len(s) /\ \A k \in 2..5 : IsHex(s[j + k])
    THEN ParseStringBody(s, j + 6,
           Append(acc, HexVal(s[j + 2]) * 4096 + HexVal(s[j + 3]) * 256
                     + HexVal(s[j + 4]) * 16 + HexVal(s[j + 5])))
    ELSE ParseFail
  ELSE IF EscapeOf(s[j + 1]) >= 0
    THEN ParseStringBody(s, j + 2, Append(acc, EscapeOf(s[j + 1])))
    ELSE ParseFail

\* The index after the integer part that starts at a, 0 when there is none.
IntegerEnd(s, a) ==
  IF a > Len(s) \/ ~IsDigit(s[a]) THEN 0
  ELSE IF s[a] = 48 THEN a + 1
  ELSE Digits(s, a)

\* The index after the digits that must start at x, 0 when there is none.
DigitsEnd(s, x) == The({IF d > x THEN d ELSE 0 : d \in {Digits(s, x)}})

\* The index after the optional fraction at b.
FractionEnd(s, b) ==
  IF b <= Len(s) /\ s[b] = 46 THEN DigitsEnd(s, b + 1) ELSE b

\* The index after the optional exponent at c.
ExponentEnd(s, c) ==
  IF c <= Len(s) /\ (s[c] = 101 \/ s[c] = 69)
  THEN (IF c + 1 <= Len(s) /\ (s[c + 1] = 43 \/ s[c + 1] = 45)
        THEN DigitsEnd(s, c + 2) ELSE DigitsEnd(s, c + 1))
  ELSE c

\* A number at index i, which holds '-' or a digit.
ParseNumber(s, i) ==
  The({IF b = 0 THEN ParseFail
       ELSE The({IF c = 0 THEN ParseFail
                 ELSE The({IF d = 0 THEN ParseFail
                           ELSE ParseOk([t |-> "num", v |-> SubSeq(s, i, d - 1)], d) :
                             d \in {ExponentEnd(s, c)}}) :
                   c \in {FractionEnd(s, b)}}) :
         b \in {IntegerEnd(s, IF s[i] = 45 THEN i + 1 ELSE i)}})

\* Whether the literal lit stands at index i.
LiteralAt(s, i, lit) ==
  i + Len(lit) - 1 <= Len(s) /\ SubSeq(s, i, i + Len(lit) - 1) = lit

LitTrue == Codes(<<"t", "r", "u", "e">>)
LitFalse == Codes(<<"f", "a", "l", "s", "e">>)
LitNull == Codes(<<"n", "u", "l", "l">>)

\* An object's members (<<key, value>> pairs in insertion order) with key k
\* bound to val: a repeated key keeps its place and takes the last value.
PutMember(m, k, val) ==
  The({IF \E i \in 1..Len(n) : n[i][1] = k
       THEN [i \in 1..Len(n) |-> IF n[i][1] = k THEN <<k, val>> ELSE n[i]]
       ELSE Append(n, <<k, val>>) :
         n \in {m}})

\* obj[k] of a parsed object: the value, or undefined.
HasMember(m, k) == \E i \in 1..Len(m) : m[i][1] = k
GetMember(m, k) == m[CHOOSE i \in 1..Len(m) : m[i][1] = k][2]

RECURSIVE ParseValue(_, _)
RECURSIVE ParseMembers(_, _, _)
RECURSIVE MemberAfterKey(_, _, _)
RECURSIVE MemberAfterValue(_, _, _)
RECURSIVE ParseElements(_, _, _)
RECURSIVE ElementAfterValue(_, _, _)

\* The value that starts at index i (white space already skipped).
ParseValue(s, i) ==
  IF i > Len(s) THEN ParseFail
  ELSE IF s[i] = 123 THEN
    LET j == SkipWs(s, i + 1)
    IN  IF j <= Len(s) /\ s[j] = 125
        THEN ParseOk([t |-> "obj", v |-> << >>], j + 1)
        ELSE ParseMembers(s, j, << >>)
  ELSE IF s[i] = 91 THEN
    LET j == SkipWs(s, i + 1)
    IN  IF j <= Len(s) /\ s[j] = 93
        THEN ParseOk([t |-> "arr", v |-> << >>], j + 1)
        ELSE ParseElements(s, j, << >>)
  ELSE IF s[i] = 34 THEN ParseStringBody(s, i + 1, << >>)
  ELSE IF s[i] = 45 \/ IsDigit(s[i]) THEN ParseNumber(s, i)
  ELSE IF LiteralAt(s, i, LitTrue)
    THEN ParseOk([t |-> "lit", v |-> LitTrue], i + 4)
  ELSE IF LiteralAt(s, i, LitFalse)
    THEN ParseOk([t |-> "lit", v |-> LitFalse], i + 5)
  ELSE IF LiteralAt(s, i, LitNull)
    THEN ParseOk([t |-> "lit", v |-> LitNull], i + 4)
  ELSE ParseFail

\* "key" : value members from index i up to the closing brace.
ParseMembers(s, i, acc) ==
  IF i > Len(s) \/ s[i] # 34 THEN ParseFail
  ELSE The({MemberAfterKey(s, k, acc) : k \in {ParseStringBody(s, i + 1, << >>)}})

\* The member whose key k has been read: the colon and the value.
MemberAfterKey(s, k, acc) ==
  IF ~k.ok THEN ParseFail
  ELSE
    LET c == SkipWs(s, k.pos)
    IN  IF c > Len(s) \/ s[c] # 58 THEN ParseFail
        ELSE The({IF ~val.ok THEN ParseFail
                  ELSE MemberAfterValue(s, val.pos, PutMember(acc, k.val.v, val.val)) :
                    val \in {ParseValue(s, SkipWs(s, c + 1))}})

\* The member has been read up to index p: the closing brace, or a comma and
\* the next member.
MemberAfterValue(s, p, acc) ==
  The({IF e > Len(s) THEN ParseFail
       ELSE IF s[e] = 125 THEN ParseOk([t |-> "obj", v |-> acc2], e + 1)
       ELSE IF s[e] = 44 THEN ParseMembers(s, SkipWs(s, e + 1), acc2)
       ELSE ParseFail :
         e \in {SkipWs(s, p)}, acc2 \in {acc}})

\* Array elements from index i up to the closing bracket.
ParseElements(s, i, acc) ==
  The({IF ~val.ok THEN ParseFail
       ELSE ElementAfterValue(s, val.pos, Append(acc, val.val)) :
         val \in {ParseValue(s, i)}})

\* The element has been read up to index p: the closing bracket, or a comma
\* and the next element.
ElementAfterValue(s, p, acc) ==
  The({IF e > Len(s) THEN ParseFail
       ELSE IF s[e] = 93 THEN ParseOk([t |-> "arr", v |-> acc2], e + 1)
       ELSE IF s[e] = 44 THEN ParseElements(s, SkipWs(s, e + 1), acc2)
       ELSE ParseFail :
         e \in {SkipWs(s, p)}, acc2 \in {acc}})

\* JSON.parse(text): the whole text is one value between white space.
JsonParse(s) ==
  The({The({IF val.ok /\ SkipWs(text, val.pos) = Len(text) + 1 THEN val ELSE ParseFail :
              val \in {ParseValue(text, SkipWs(text, 1))}}) :
         text \in {s}})

\* A character of a string literal, escaped the way JSON.stringify escapes.
QuotedChar(c) ==
  IF c = 34 \/ c = 92 THEN <<92, c>>
  ELSE IF c = 10 THEN <<92, 110>>
  ELSE IF c = 13 THEN <<92, 114>>
  ELSE IF c = 9 THEN <<92, 116>>
  ELSE <<c>>

\* A string literal's characters: those of its two halves, one after the other.
RECURSIVE Quoted(_)
Quoted(text) ==
  IF text = << >> THEN << >>
  ELSE IF Len(text) = 1 THEN QuotedChar(text[1])
  ELSE The({Quoted(front) \o Quoted(back) :
              front \in {SubSeq(text, 1, Len(text) \div 2)},
              back \in {SubSeq(text, Len(text) \div 2 + 1, Len(text))}})

JsonString(text) == <<34>> \o Quoted(text) \o <<34>>

\* The object the fields (<<key text, value text>>, in order) denote.
RECURSIVE MembersOf(_)
MembersOf(fields) ==
  IF fields = << >> THEN << >>
  ELSE The({PutMember(MembersOf(front), last[1], JStr(last[2])) :
              front \in {SubSeq(fields, 1, Len(fields) - 1)},
              last \in {fields[Len(fields)]}})

ObjectOf(fields) == [t |-> "obj", v |-> MembersOf(fields)]

\* JSON.stringify(value): no white space, members in insertion order. (A number
\* is written as its lexeme.)
RECURSIVE JsonStringify(_)
RECURSIVE StringifyMembers(_)
RECURSIVE StringifyElements(_)
JsonStringify(val) ==
  The({IF x.t = "str" THEN JsonString(x.v)
       ELSE IF x.t = "obj" THEN <<123>> \o StringifyMembers(x.v) \o <<125>>
       ELSE IF x.t = "arr" THEN <<91>> \o StringifyElements(x.v) \o <<93>>
       ELSE x.v :
         x \in {val}})

StringifyMembers(m) ==
  IF m = << >> THEN << >>
  ELSE The({JsonString(first[1]) \o <<58>> \o JsonStringify(first[2])
            \o (IF rest # << >> THEN <<44>> ELSE << >>)
            \o StringifyMembers(rest) :
              first \in {Head(m)}, rest \in {Tail(m)}})

StringifyElements(e) ==
  IF e = << >> THEN << >>
  ELSE The({JsonStringify(first) \o (IF rest # << >> THEN <<44>> ELSE << >>)
            \o StringifyElements(rest) :
              first \in {Head(e)}, rest \in {Tail(e)}})

\* The same object as a key file is written: one field per line, indented.
RECURSIVE IndentedFields(_)
IndentedFields(fields) ==
  IF fields = << >> THEN << >>
  ELSE The({<<10, 32, 32>> \o JsonString(first[1]) \o <<58, 32>>
            \o JsonString(first[2])
            \o (IF rest # << >> THEN <<44>> ELSE << >>)
            \o IndentedFields(rest) :
              first \in {Head(fields)}, rest \in {Tail(fields)}})

KeyFileText(fields) == <<123>> \o IndentedFields(fields) \o <<10, 125, 10>>

\* Equality of parse outcomes (the tag decides before the payloads are compared).
SameParse(a, b) ==
  /\ a.ok = b.ok
  /\ a.ok => (a.val.t = b.val.t /\ a.val.v = b.val.v)

\* ---------------------------------------------------------- credentials
\* A credentials argument: a string (its text), or a value that is no string
\* (an object, undefined), on which Buffer.from throws a TypeError.
StringCreds(text) == [kind |-> "string", text |-> text]
ObjectCreds == [kind |-> "object", text |-> << >>]
UndefinedCreds == [kind |-> "undefined", text |-> << >>]

\* JSON.parse(Buffer.from(credentials, 'base64').toString())
ParseBase64Json(creds) ==
  IF creds.kind # "string" THEN ParseFail
  ELSE JsonParse(Base64DecodeToString(creds.text))

\* JSON.parse(credentials): a value that is no string is first converted to
\* one ("[object Object]", "undefined"), which is no JSON.
ParsePlainJson(creds) ==
  IF creds.kind # "string" THEN ParseFail ELSE JsonParse(creds.text)

\* A service-account object of one field, and the texts it is handed over as.
SampleFields ==
  << <<Codes(<<"t", "y", "p", "e">>),
       Codes(<<"s", "e", "r", "v", "i", "c", "e", "_",
               "a", "c", "c", "o", "u", "n", "t">>)>> >>
SamplePlain == JsonStringify(ObjectOf(SampleFields))
SampleBase64 == Base64Encode(SamplePlain)
NotJson == Codes(<<"n", "o", "t", " ", "j", "s", "o", "n">>)
NotJsonBase64 == Base64Encode(NotJson)

\* ------------------------------------------------------------ validation
\* BigQueryDatasetService.validateDatasetAccess / validateMultipleDatasetAccess
DatasetIds == {"a", "b", "c"}

ValidationCreds ==
  {StringCreds(SampleBase64), StringCreds(SamplePlain),
   StringCreds(NotJsonBase64), ObjectCreds}

\* Whether building the client from each credentials argument succeeds in
\* decoding it (computed once per argument).
Base64JsonDecodes == [c \in ValidationCreds |-> ParseBase64Json(c).ok]

Range(q) == {q[i] : i \in 1..Len(q)}
SeqsUpTo(S, n) == UNION {[1..k -> S] : k \in 0..n}

Settled(t) == t \in {"true", "false", "threw"}

\* The catch block of validateDatasetAccess: whatever was thrown, return false.
RethrowAccessFailure(outcome) == outcome
CatchAccessFailure(outcome) == IF outcome = "threw" THEN "false" ELSE outcome

\* After the import: building the client decodes the credentials (base64, then
\* JSON.parse; no plain-JSON fallback here), then the metadata call is awaited.
ClientStep(creds, importOk, clientOk) ==
  IF ~importOk THEN [task |-> "threw", cause |-> "import"]
  ELSE IF ~Base64JsonDecodes[creds] THEN [task |-> "threw", cause |-> "decode"]
  ELSE IF ~clientOk THEN [task |-> "threw", cause |-> "client"]
  ELSE [task |-> "metadata", cause |-> "pending"]

\* dataset.getMetadata() resolved or rejected.
MetadataStep(ok) ==
  IF ok THEN [task |-> "true", cause |-> "ok"]
  ELSE [task |-> "threw", cause |-> "metadata"]

\* Promise.all over datasetIds.map(...): one {datasetId, accessible} per
\* position, in input order, whatever the order of completion.
CollectInCompletionOrder(ids, task, order) ==
  [k \in 1..Len(order) |->
     [datasetId |-> ids[order[k]], accessible |-> task[order[k]] = "true"]]
CollectResults(ids, task, order) ==
  [i \in 1..Len(ids) |-> [datasetId |-> ids[i], accessible |-> task[i] = "true"]]

DatasetIdsOf(results) == [i \in 1..Len(results) |-> results[i].datasetId]
AccessibleOf(results) ==
  DatasetIdsOf(SelectSeq(results, LAMBDA r : r.accessible))
InaccessibleOf(results) ==
  DatasetIdsOf(SelectSeq(results, LAMBDA r : ~r.accessible))

PendingPartition ==
  [status |-> "pending", accessible |-> << >>, inaccessible |-> << >>]

\* The promise settles: rejected by a call that threw, else resolved with the
\* two filtered lists.
SettledPartition(ids, task, order) ==
  IF \E i \in 1..Len(ids) : task[i] = "threw"
  THEN [status |-> "rejected", accessible |-> << >>, inaccessible |-> << >>]
  ELSE [status |-> "resolved",
        accessible |-> AccessibleOf(CollectResults(ids, task, order)),
        inaccessible |-> InaccessibleOf(CollectResults(ids, task, order))]

\* First-to-fail joining: the batch is handed back as soon as one task has
\* come back negative.
ReadyOnFirstFailure(task) ==
  (\A i \in DOMAIN task : Settled(task[i])) \/ (\E i \in DOMAIN task : task[i] \in {"false", "threw"})
\* Promise.all: every call has settled, or one has rejected.
ReadyToSettle(task) ==
  (\A i \in DOMAIN task : Settled(task[i])) \/ (\E i \in DOMAIN task : task[i] = "threw")

\* validateMultipleDatasetAccess(projectId, datasetIds, credentials) is called:
\* every per-dataset call runs up to its first await.
ValidateInit ==
  /\ vIds \in SeqsUpTo(DatasetIds, MaxIds)
  /\ vCreds \in ValidationCreds
  /\ vTask = [i \in 1..Len(vIds) |-> "import"]
  /\ vCause = [i \in 1..Len(vIds) |-> "pending"]
  /\ vOrder = << >>
  /\ vResult = PendingPartition

\* The call at position i resumes after its import.
ValidateClient(i) ==
  /\ vResult.status = "pending"
  /\ vTask[i] = "import"
  /\ \E importOk \in BOOLEAN, clientOk \in BOOLEAN :
       LET step == ClientStep(vCreds, importOk, clientOk)
           out == CatchAccessFailure(step.task)
       IN  /\ vTask' = [vTask EXCEPT ![i] = out]
           /\ vCause' = [vCause EXCEPT ![i] = step.cause]
           /\ vOrder' = IF Settled(out) THEN Append(vOrder, i) ELSE vOrder
  /\ UNCHANGED <<vIds, vCreds, vResult, tVars, dVars, cVars, fVars, pVars, aVars, mVars, bVars, rVars>>

\* The call at position i resumes after its metadata request.
ValidateMetadata(i) ==
  /\ vResult.status = "pending"
  /\ vTask[i] = "metadata"
  /\ \E ok \in BOOLEAN :
       LET step == MetadataStep(ok)
       IN  /\ vTask' = [vTask EXCEPT ![i] = CatchAccessFailure(step.task)]
           /\ vCause' = [vCause EXCEPT ![i] = step.cause]
  /\ vOrder' = Append(vOrder, i)
  /\ UNCHANGED <<vIds, vCreds, vResult, tVars, dVars, cVars, fVars, pVars, aVars, mVars, bVars, rVars>>

\* Promise.all settles and the partition is returned.
ValidateReturn ==
  /\ vResult.status = "pending"
  /\ ReadyToSettle(vTask)
  /\ vResult' = SettledPartition(vIds, vTask, vOrder)
  /\ UNCHANGED <<vIds, vCreds, vTask, vCause, vOrder, tVars, dVars, cVars, fVars, pVars, aVars, mVars, bVars, rVars>>

ValidateNext ==
  \/ \E i \in 1..Len(vIds) : ValidateClient(i)
  \/ \E i \in 1..Len(vIds) : ValidateMetadata(i)
  \/ ValidateReturn

\* sel is ids restricted, in order, to the positions that satisfy keep.
OrderedSelection(sel, ids, keep) ==
  /\ Len(sel) = Cardinality({i \in 1..Len(ids) : keep[i]})
  /\ \E f \in [1..Len(sel) -> 1..Len(ids)] :
       /\ \A k \in 1..Len(sel) : keep[f[k]] /\ ids[f[k]] = sel[k]
       /\ \A k \in 1..Len(sel), l \in 1..Len(sel) : k < l => f[k] < f[l]

\* C1: the returned accessible and inaccessible lists cover exactly the input
\* ids and share no id, for every input list (duplicates included) and every
\* outcome of the individual checks.
C1_PartitionOfInput ==
  vResult.status = "resolved" =>
    /\ Range(vResult.accessible) \cup Range(vResult.inaccessible) = Range(vIds)
    /\ Range(vResult.accessible) \cap Range(vResult.inaccessible) = {}

\* C2: accessible and inaccessible list their ids in the order of datasetIds,
\* whatever the order in which the per-dataset validations completed.
C2_InputOrderKept ==
  vResult.status = "resolved" =>
    /\ OrderedSelection(vResult.accessible, vIds,
                        [i \in 1..Len(vIds) |-> vCause[i] = "ok"])
    /\ OrderedSelection(vResult.inaccessible, vIds,
                        [i \in 1..Len(vIds) |-> vCause[i] # "ok"])

\* C2 witness: [a, b, c] with b failing and c completing before a.
C2_Witness ==
  /\ vResult.status = "resolved"
  /\ vIds = <<"a", "b", "c">>
  /\ vOrder = <<3, 2, 1>>
  /\ vResult.accessible = <<"a", "c">>
  /\ vResult.inaccessible = <<"b">>

\* C10: a single-dataset validation never throws: every failure (import,
\* credential decoding, client construction, metadata call) gives false, and
\* true is returned only when the metadata call succeeded.
C10_ValidateOneNeverThrows ==
  \A i \in 1..Len(vIds) :
    /\ vTask[i] # "threw"
    /\ vTask[i] = "true" => vCause[i] = "ok"
    /\ vCause[i] \in {"import", "decode", "client", "metadata"} => vTask[i] = "false"

\* C10 witness: calls that failed at decoding, in the client and in the
\* metadata request returned false, and one whose metadata call succeeded true.
C10_Witness ==
  /\ \E i \in 1..Len(vIds) : vCause[i] = "client" /\ vTask[i] = "false"
  /\ \E i \in 1..Len(vIds) : vCause[i] = "metadata" /\ vTask[i] = "false"
  /\ \E i \in 1..Len(vIds) : vCause[i] = "ok" /\ vTask[i] = "true"

\* ----------------------------------------------------------- aggregation
\* DataSourceMetadataService.listTablesFromDatasets
DataSources == {"BIG_QUERY", "POSTGRES", "DUCK_DB"}
TableDatasetIds == {"d1", "d2"}
TableNames == {"orders", "users"}

\* table.properties as the provider returns it: absent, or already holding a
\* dataset (and another) property.
NoProperties == << >>
ProviderProperties ==
  {NoProperties, [k \in {"dataset", "schema"} |-> IF k = "dataset" THEN "legacy" ELSE "public"]}

ProviderTables == [name : TableNames, properties : ProviderProperties]

\* A dataset's listing: at most MaxTables tables, names unique in the dataset.
Listings ==
  {l \in SeqsUpTo(ProviderTables, MaxTables) :
     \A i \in 1..Len(l), j \in 1..Len(l) : i # j => l[i].name # l[j].name}

\* The listing as fetched at position i (origin records the fetch, for the
\* properties below; the spread ...table carries it along).
Fetched(l, i) ==
  [k \in 1..Len(l) |->
     [name |-> l[k].name, properties |-> l[k].properties, origin |-> i]]

\* { ...props, [k]: val }
SetProperty(props, k, val) ==
  [x \in (DOMAIN props) \cup {k} |-> IF x = k THEN val ELSE props[x]]

\* { ...table, properties: { ...table.properties, dataset: datasetId } }
KeepProviderDataset(table, datasetId) ==
  [table EXCEPT !.properties =
     IF "dataset" \in DOMAIN table.properties THEN table.properties
     ELSE SetProperty(table.properties, "dataset", datasetId)]
TagTable(table, datasetId) ==
  [table EXCEPT !.properties = SetProperty(table.properties, "dataset", datasetId)]

\* The per-dataset task: the tagged listing, or [] when the fetch failed (the
\* catch block logs a warning).
RethrowFetchFailure(fetch, datasetId) ==
  IF fetch.st = "failed" THEN [st |-> "threw", tables |-> << >>]
  ELSE [st |-> "done",
        tables |-> [k \in 1..Len(fetch.tables) |-> TagTable(fetch.tables[k], datasetId)]]
DatasetTask(fetch, datasetId) ==
  IF fetch.st = "failed" THEN [st |-> "done", tables |-> << >>]
  ELSE [st |-> "done",
        tables |-> [k \in 1..Len(fetch.tables) |-> TagTable(fetch.tables[k], datasetId)]]

\* The per-dataset lists one after the other.
RECURSIVE Flat(_)
Flat(parts) ==
  IF parts = << >> THEN << >>
  ELSE parts[1].tables \o Flat(Tail(parts))

\* allTables = tableResults.flat(): every entry is kept.
UniqueNamedTables(parts) ==
  LET all == Flat(parts)
      marked == [p \in 1..Len(all) |->
                   [table |-> all[p],
                    first |-> \A q \in 1..(p - 1) : all[q].name # all[p].name]]
      kept == SelectSeq(marked, LAMBDA e : e.first)
  IN  [p \in 1..Len(kept) |-> kept[p].table]
AllTables(parts) == Flat(parts)

\* The first failure empties the whole result.
AllOrNothingTables(parts, fetch) ==
  IF \E i \in 1..Len(fetch) : fetch[i].st = "failed"
  THEN [status |-> "resolved", tables |-> << >>]
  ELSE [status |-> "resolved", tables |-> AllTables(parts)]
\* Promise.all settles and allTables is returned.
SettledTables(parts, fetch) ==
  IF \E i \in 1..Len(parts) : parts[i].st = "threw"
  THEN [status |-> "rejected", tables |-> << >>]
  ELSE [status |-> "resolved", tables |-> AllTables(parts)]

PendingFetch == [st |-> "pending", tables |-> << >>]
PendingPart == [st |-> "pending", tables |-> << >>]
PendingTables == [status |-> "pending", tables |-> << >>]

\* listTables(project): the listing of the engine (DuckDB) or of the ibis
\* adaptor, fetched once (origin 0), or the adaptor's failure.
ListTables(ok, l) ==
  IF ok THEN [status |-> "resolved", tables |-> Fetched(l, 0)]
  ELSE [status |-> "rejected", tables |-> << >>]

\* Not BigQuery: return await this.listTables(project).
FallbackTagged(plain, ids) ==
  IF ids = << >> THEN plain
  ELSE [plain EXCEPT !.tables =
          [k \in 1..Len(plain.tables) |-> TagTable(plain.tables[k], ids[1])]]
FallbackTables(plain, ids) == plain

\* listTablesFromDatasets(project, datasetIds) is called.
TablesInit ==
  /\ tSource \in DataSources
  /\ tIds \in SeqsUpTo(TableDatasetIds, MaxDatasets)
  /\ tFetch = [i \in 1..Len(tIds) |-> PendingFetch]
  /\ tPart = [i \in 1..Len(tIds) |-> PendingPart]
  /\ tOut = PendingTables

\* Not BigQuery: the single ungrouped listing of listTables(project), whose
\* failure is the caller's.
TablesFallback ==
  /\ tSource # "BIG_QUERY"
  /\ tOut.status = "pending"
  /\ \E ok \in BOOLEAN, l \in Listings :
       tOut' = FallbackTables(ListTables(ok, l), tIds)
  /\ UNCHANGED <<tSource, tIds, tFetch, tPart, vVars, dVars, cVars, fVars, pVars, aVars, mVars, bVars, rVars>>

\* BigQuery: the getTables call for position i resolves with a listing.
TablesFetched(i) ==
  /\ tSource = "BIG_QUERY"
  /\ tOut.status = "pending"
  /\ tFetch[i].st = "pending"
  /\ \E l \in Listings :
       LET fetch == [st |-> "ok", tables |-> Fetched(l, i)]
       IN  /\ tFetch' = [tFetch EXCEPT ![i] = fetch]
           /\ tPart' = [tPart EXCEPT ![i] = DatasetTask(fetch, tIds[i])]
  /\ UNCHANGED <<tSource, tIds, tOut, vVars, dVars, cVars, fVars, pVars, aVars, mVars, bVars, rVars>>

\* BigQuery: the getTables call for position i rejects.
TablesFetchFailed(i) ==
  /\ tSource = "BIG_QUERY"
  /\ tOut.status = "pending"
  /\ tFetch[i].st = "pending"
  /\ LET fetch == [st |-> "failed", tables |-> << >>]
     IN  /\ tFetch' = [tFetch EXCEPT ![i] = fetch]
         /\ tPart' = [tPart EXCEPT ![i] = DatasetTask(fetch, tIds[i])]
  /\ UNCHANGED <<tSource, tIds, tOut, vVars, dVars, cVars, fVars, pVars, aVars, mVars, bVars, rVars>>

TablesReady(parts) ==
  (\A i \in DOMAIN parts : parts[i].st # "pending")
    \/ (\E i \in DOMAIN parts : parts[i].st = "threw")

\* BigQuery: Promise.all settles, the lists are flattened and returned.
TablesReturn ==
  /\ tSource = "BIG_QUERY"
  /\ tOut.status = "pending"
  /\ TablesReady(tPart)
  /\ tOut' = SettledTables(tPart, tFetch)
  /\ UNCHANGED <<tSource, tIds, tFetch, tPart, vVars, dVars, cVars, fVars, pVars, aVars, mVars, bVars, rVars>>

TablesNext ==
  \/ TablesFallback
  \/ \E i \in 1..Len(tIds) : TablesFetched(i)
  \/ \E i \in 1..Len(tIds) : TablesFetchFailed(i)
  \/ TablesReturn

\* The returned entries that come from the fetch at position i, in order.
FromFetch(out, i) == SelectSeq(out, LAMBDA e : e.origin = i)

RECURSIVE SumLen(_)
SumLen(fetch) ==
  IF fetch = << >> THEN 0 ELSE Len(fetch[1].tables) + SumLen(Tail(fetch))

\* a and b agree on every property other than dataset.
SameOtherProperties(a, b) ==
  /\ (DOMAIN a) \ {"dataset"} = (DOMAIN b) \ {"dataset"}
  /\ \A k \in (DOMAIN a) \ {"dataset"} : a[k] = b[k]

TablesReturned == tSource = "BIG_QUERY" /\ tOut.status # "pending"

\* C3: whatever subset of the per-dataset fetches failed, every table of every
\* dataset whose fetch succeeded is returned, unaltered but for its dataset
\* tag, and a failed dataset contributes no table.
C3_SuccessfulDatasetsKept ==
  TablesReturned =>
    /\ tOut.status = "resolved"
    /\ \A i \in 1..Len(tIds) :
         LET mine == FromFetch(tOut.tables, i)
         IN  /\ Len(mine) = Len(tFetch[i].tables)
             /\ tFetch[i].st = "failed" => mine = << >>
             /\ \A k \in 1..Len(mine) :
                  /\ mine[k].name = tFetch[i].tables[k].name
                  /\ SameOtherProperties(mine[k].properties,
                                         tFetch[i].tables[k].properties)

\* C3 witness: the second dataset's fetch failed and the first one's two
\* tables were returned.
C3_Witness ==
  /\ TablesReturned
  /\ Len(tIds) = 2
  /\ tFetch[2].st = "failed"
  /\ tFetch[1].st = "ok"
  /\ Len(tOut.tables) = 2
  /\ \A p \in 1..2 : tOut.tables[p].properties["dataset"] = tIds[1]

\* C4: every returned table carries properties.dataset, equal to the dataset id
\* of the fetch that produced it (whatever dataset property the provider
\* returned), which is one of the requested ids.
C4_TaggedWithOriginDataset ==
  TablesReturned =>
    \A p \in 1..Len(tOut.tables) :
      /\ "dataset" \in DOMAIN tOut.tables[p].properties
      /\ tOut.tables[p].origin \in 1..Len(tIds)
      /\ tOut.tables[p].properties["dataset"] = tIds[tOut.tables[p].origin]
      /\ tOut.tables[p].properties["dataset"] \in Range(tIds)

\* C4 witness: the provider returned a table with its own dataset property,
\* and the returned table carries the requested id instead.
C4_Witness ==
  /\ TablesReturned
  /\ \E i \in 1..Len(tIds), p \in 1..Len(tOut.tables) :
       /\ tFetch[i].st = "ok"
       /\ tOut.tables[p].origin = i
       /\ \E k \in 1..Len(tFetch[i].tables) :
            /\ tFetch[i].tables[k].name = tOut.tables[p].name
            /\ "dataset" \in DOMAIN tFetch[i].tables[k].properties
            /\ tFetch[i].tables[k].properties["dataset"] = "legacy"
       /\ tOut.tables[p].properties["dataset"] = tIds[i]

\* C22: for a data source other than BigQuery, listTablesFromDatasets returns
\* exactly what listTables(project) returns, for every datasetIds: one
\* ungrouped listing, no per-dataset fetch, no properties.dataset tag added.
C22_NonBigQueryIsPlainListing ==
  [][TablesFallback =>
       /\ \E ok \in BOOLEAN, l \in Listings :
            /\ tOut' = ListTables(ok, l)
            /\ \A k \in 1..Len(tOut'.tables) :
                 /\ tOut'.tables[k].properties = l[k].properties
                 /\ tOut'.tables[k].origin = 0
       /\ \A i \in 1..Len(tIds) : tFetch'[i] = PendingFetch /\ tPart'[i] = PendingPart]_vars

\* C22 witness: two dataset ids were given for a source other than BigQuery;
\* the two tables returned have no properties and nothing was fetched per
\* dataset.
C22_Witness ==
  /\ tSource # "BIG_QUERY"
  /\ Len(tIds) = 2
  /\ tOut.status = "resolved"
  /\ Len(tOut.tables) = 2
  /\ \A k \in 1..2 : tOut.tables[k].properties = NoProperties /\ tOut.tables[k].origin = 0
  /\ \A i \in 1..2 : tFetch[i] = PendingFetch

\* C5: nothing is deduplicated: as many tables are returned as the successful
\* listings hold, grouped in datasetIds order, and a name that two datasets
\* share gives two entries, each with its own dataset tag.
C5_NoDeduplication ==
  TablesReturned =>
    /\ Len(tOut.tables) = SumLen(tFetch)
    /\ \A p \in 1..Len(tOut.tables), q \in 1..Len(tOut.tables) :
         p < q => tOut.tables[p].origin <= tOut.tables[q].origin
    /\ \A i \in 1..Len(tIds), j \in 1..Len(tIds) :
         \A k \in 1..Len(tFetch[i].tables), l \in 1..Len(tFetch[j].tables) :
           (i # j /\ tFetch[i].tables[k].name = tFetch[j].tables[l].name) =>
             \E p \in 1..Len(tOut.tables), q \in 1..Len(tOut.tables) :
               /\ p # q
               /\ tOut.tables[p].name = tFetch[i].tables[k].name
               /\ tOut.tables[q].name = tFetch[i].tables[k].name
               /\ tOut.tables[p].properties["dataset"] = tIds[i]
               /\ tOut.tables[q].properties["dataset"] = tIds[j]

\* C5 witness: d1 and d2 both hold a table orders, and both are returned.
C5_Witness ==
  /\ TablesReturned
  /\ tIds = <<"d1", "d2">>
  /\ Len(tOut.tables) = 3
  /\ tOut.tables[1].name = "orders"
  /\ tOut.tables[1].properties["dataset"] = "d1"
  /\ tOut.tables[3].name = "orders"
  /\ tOut.tables[3].properties["dataset"] = "d2"

\* C6: for a BigQuery project the call never rejects, and when every fetch
\* failed (or datasetIds is empty) it returns the empty sequence.
C6_NeverRejects ==
  /\ tSource = "BIG_QUERY" => tOut.status # "rejected"
  /\ (TablesReturned /\ \A i \in 1..Len(tIds) : tFetch[i].st = "failed") =>
       (tOut.status = "resolved" /\ tOut.tables = << >>)

\* C6 witness: two datasets, both fetches failed, the empty sequence returned.
C6_Witness ==
  /\ TablesReturned
  /\ Len(tIds) = 2
  /\ \A i \in 1..2 : tFetch[i].st = "failed"
  /\ tOut.status = "resolved"
  /\ tOut.tables = << >>


\* -------------------------------------------------------------- discovery
\* The credentials decoding of discoverDatasets: base64 decode and parse
\* first; if that throws, parse the raw string; if that throws too, the
\* credentials are invalid. path tells which attempt gave the value.
Base64Only(creds) ==
  The({[ok |-> first.ok, val |-> first.val,
        path |-> IF first.ok THEN "base64" ELSE "none"] :
         first \in {ParseBase64Json(creds)}})
DecodeCredentials(creds) ==
  The({IF first.ok THEN [ok |-> TRUE, val |-> first.val, path |-> "base64"]
       ELSE The({IF second.ok
                 THEN [ok |-> TRUE, val |-> second.val, path |-> "plain"]
                 ELSE [ok |-> FALSE, val |-> ParseFail.val, path |-> "none"] :
                   second \in {ParsePlainJson(creds)}}) :
         first \in {ParseBase64Json(creds)}})

\* The stored connectionInfo.credentials: whether encryptor.decrypt returns,
\* and the text it returns.
Stored(text) == [decrypts |-> TRUE, text |-> text]
Undecryptable == [decrypts |-> FALSE, text |-> << >>]

CredentialsKey ==
  Codes(<<"c", "r", "e", "d", "e", "n", "t", "i", "a", "l", "s">>)
\* JSON.stringify({ credentials: value })
WrapperText(val) == JsonStringify([t |-> "obj", v |-> <<<<CredentialsKey, val>>>>])

StoredCredentials ==
  {Undecryptable,
   Stored(NotJson),
   Stored(LitNull),
   Stored(Codes(<<"{", "}">>)),
   Stored(WrapperText(ObjectOf(SampleFields))),
   Stored(WrapperText(JStr(SampleBase64))),
   Stored(WrapperText(JStr(SamplePlain))),
   Stored(WrapperText(JStr(NotJson)))}

\* Lines 136-152 of the metadata service: decrypt, parse the wrapper, take its
\* credentials, and stringify them unless they are a string already. failure
\* names the step that threw.
PrepareCredentials(stored) ==
  IF ~stored.decrypts THEN [failure |-> "decrypt", creds |-> UndefinedCreds]
  ELSE
    The({IF ~wrapper.ok THEN [failure |-> "wrapper", creds |-> UndefinedCreds]
         ELSE IF wrapper.val.t = "lit" /\ wrapper.val.v = LitNull
           THEN [failure |-> "wrapper", creds |-> UndefinedCreds]
         ELSE IF wrapper.val.t # "obj" \/ ~HasMember(wrapper.val.v, CredentialsKey)
           THEN [failure |-> "none", creds |-> UndefinedCreds]
         ELSE
           The({IF actual.t = "str"
                THEN [failure |-> "none", creds |-> StringCreds(actual.v)]
                ELSE [failure |-> "none", creds |-> StringCreds(JsonStringify(actual))] :
                  actual \in {GetMember(wrapper.val.v, CredentialsKey)}}) :
           wrapper \in {JsonParse(stored.text)}})

\* The credentials handed to the service's discoverDatasets directly.
ServiceCreds ==
  {StringCreds(SampleBase64), StringCreds(SamplePlain),
   StringCreds(NotJsonBase64), StringCreds(NotJson), UndefinedCreds}

\* Both computed once per argument.
Prepared == [st \in StoredCredentials |-> PrepareCredentials(st)]
Decoded ==
  [c \in ServiceCreds \cup {Prepared[st].creds : st \in StoredCredentials} |->
     DecodeCredentials(c)]

\* The error a call threw: its code (a number, a string, or none) and whether it
\* has a message.
ErrorCodes ==
  {"403", "'PERMISSION_DENIED'", "401", "'UNAUTHENTICATED'", "404", "'NOT_FOUND'",
   "500", "'403'", "'INTERNAL'", "undefined"}
Errors == [code : ErrorCodes, hasMessage : BOOLEAN]
NoCodeError == [code |-> "undefined", hasMessage |-> TRUE]

NoError == [code |-> "none", message |-> "none", requiresManualInput |-> FALSE]
DiscoveryError(code, message, manual) ==
  [code |-> code, message |-> message, requiresManualInput |-> manual]

\* { success: false, error } sent with the given HTTP status (0: no HTTP).
FailureWithDatasets(http, error) ==
  [status |-> "returned", http |-> http, keys |-> {"success", "datasets", "error"},
   success |-> FALSE, datasets |-> << >>, error |-> error]
Failure(http, error) ==
  [status |-> "returned", http |-> http, keys |-> {"success", "error"},
   success |-> FALSE, datasets |-> << >>, error |-> error]
\* { success: true, datasets }
Success(http, datasets) ==
  [status |-> "returned", http |-> http, keys |-> {"success", "datasets"},
   success |-> TRUE, datasets |-> datasets, error |-> NoError]
Thrown ==
  [status |-> "threw", http |-> 0, keys |-> {},
   success |-> FALSE, datasets |-> << >>, error |-> NoError]
PendingResult ==
  [status |-> "pending", http |-> 0, keys |-> {},
   success |-> FALSE, datasets |-> << >>, error |-> NoError]

\* The catch block of the service's discoverDatasets.
ServiceErrorResult(err) ==
  IF err.code = "403" \/ err.code = "'PERMISSION_DENIED'" THEN
    Failure(0, DiscoveryError("INSUFFICIENT_PERMISSIONS", "lacks permission", TRUE))
  ELSE IF err.code = "401" \/ err.code = "'UNAUTHENTICATED'" THEN
    Failure(0, DiscoveryError("AUTHENTICATION_FAILED", "invalid credentials", FALSE))
  ELSE IF err.code = "404" \/ err.code = "'NOT_FOUND'" THEN
    Failure(0, DiscoveryError("PROJECT_NOT_FOUND", "project not found", FALSE))
  ELSE
    Failure(0, DiscoveryError("DISCOVERY_FAILED",
                 IF err.hasMessage THEN "error.message" ELSE "failed to discover",
                 TRUE))

\* The catch block of the API handler: the same mapping, always HTTP 200.
NumericCodesOnly(err) ==
  IF err.code = "403" THEN
    Failure(200, DiscoveryError("INSUFFICIENT_PERMISSIONS", "lacks permission", TRUE))
  ELSE IF err.code = "401" THEN
    Failure(200, DiscoveryError("AUTHENTICATION_FAILED", "invalid credentials", FALSE))
  ELSE IF err.code = "404" THEN
    Failure(200, DiscoveryError("PROJECT_NOT_FOUND", "project not found", FALSE))
  ELSE
    Failure(200, DiscoveryError("DISCOVERY_FAILED",
                   IF err.hasMessage THEN "error.message" ELSE "failed to discover",
                   TRUE))
HandlerErrorResult(err) ==
  IF err.code = "403" \/ err.code = "'PERMISSION_DENIED'" THEN
    Failure(200, DiscoveryError("INSUFFICIENT_PERMISSIONS", "lacks permission", TRUE))
  ELSE IF err.code = "401" \/ err.code = "'UNAUTHENTICATED'" THEN
    Failure(200, DiscoveryError("AUTHENTICATION_FAILED", "invalid credentials", FALSE))
  ELSE IF err.code = "404" \/ err.code = "'NOT_FOUND'" THEN
    Failure(200, DiscoveryError("PROJECT_NOT_FOUND", "project not found", FALSE))
  ELSE
    Failure(200, DiscoveryError("DISCOVERY_FAILED",
                   IF err.hasMessage THEN "error.message" ELSE "failed to discover",
                   TRUE))

\* The catch block that an error thrown under the given entry point reaches.
CaughtResult(entry, err) ==
  IF entry = "handler" THEN HandlerErrorResult(err) ELSE ServiceErrorResult(err)

\* The service's answer to credentials that are neither base64 JSON nor JSON.
InvalidCredentials ==
  Failure(0, DiscoveryError("INVALID_CREDENTIALS", "invalid credentials format", FALSE))

\* The metadata service's catch block around the credential handling.
ProcessingFailedTerminal ==
  Failure(0, DiscoveryError("DISCOVERY_FAILED", "failed to process credentials", FALSE))
ProcessingFailed ==
  Failure(0, DiscoveryError("DISCOVERY_FAILED", "failed to process credentials", TRUE))

\* The error the orchestrator's onError stores when the request itself failed.
TransportError ==
  DiscoveryError("DISCOVERY_FAILED", "error.message or failed to discover", TRUE)

MethodNotAllowed ==
  Failure(405, DiscoveryError("METHOD_NOT_ALLOWED", "only POST is allowed", FALSE))
InvalidInputInBody ==
  Failure(200, DiscoveryError("INVALID_INPUT", "missing projectId or credentials", FALSE))
InvalidInput ==
  Failure(400, DiscoveryError("INVALID_INPUT", "missing projectId or credentials", FALSE))

\* A DatasetInfo: the id, and the metadata fields when getMetadata resolved.
MetadataFields ==
  {"friendlyName", "description", "location", "creationTime", "lastModifiedTime"}
DatasetInfo(id, meta) ==
  [id |-> id, fields |-> IF meta = "ok" THEN MetadataFields ELSE {}]

OnlyWithMetadata(listed, meta) ==
  LET kept == SelectSeq([i \in 1..Len(listed) |-> <<listed[i], meta[i]>>],
                        LAMBDA e : e[2] = "ok")
  IN  [i \in 1..Len(kept) |-> DatasetInfo(kept[i][1], kept[i][2])]
DatasetInfos(listed, meta) ==
  [i \in 1..Len(listed) |-> DatasetInfo(listed[i], meta[i])]

NoFailure == [step |-> "none", error |-> NoCodeError]
FailedAt(step, err) == [step |-> step, error |-> err]

\* The enumerations getDatasets can give: distinct datasets of the project.
Enumerations ==
  {l \in SeqsUpTo(DatasetIds, MaxListed) :
     \A i \in 1..Len(l), j \in 1..Len(l) : i # j => l[i] # l[j]}

\* The calls: the service with its credentials argument, the metadata service
\* with a project (its type and stored credentials), the handler with a request.
DiscoveryInputs(entry) ==
  IF entry = "service" THEN
    [method : {"none"}, hasProjectId : {TRUE}, creds : ServiceCreds,
     type : {"BIG_QUERY"}, stored : {Undecryptable}]
  ELSE IF entry = "metadata" THEN
    [method : {"none"}, hasProjectId : {TRUE}, creds : {UndefinedCreds},
     type : DataSources, stored : StoredCredentials]
  ELSE
    [method : {"POST", "GET"}, hasProjectId : BOOLEAN,
     creds : {ObjectCreds, UndefinedCreds},
     type : {"BIG_QUERY"}, stored : {Undecryptable}]

DiscoverInit ==
  /\ dEntry \in {"service", "metadata", "handler"}
  /\ dInput \in DiscoveryInputs(dEntry)
  /\ dPc = IF dEntry = "service" THEN "decode" ELSE "called"
  /\ dCreds = dInput.creds
  /\ dFailure = NoFailure
  /\ dListed = << >>
  /\ dMeta = << >>
  /\ dResult = PendingResult

\* The handler looks at the request: the method, then the body.
HandlerCheck ==
  /\ dEntry = "handler"
  /\ dPc = "called"
  /\ IF dInput.method # "POST"
     THEN dPc' = "done" /\ dResult' = MethodNotAllowed
     ELSE IF ~dInput.hasProjectId \/ dInput.creds.kind = "undefined"
       THEN dPc' = "done" /\ dResult' = InvalidInput
       ELSE dPc' = "import" /\ dResult' = dResult
  /\ UNCHANGED <<dEntry, dInput, dCreds, dFailure, dListed, dMeta, vVars, tVars, cVars, fVars, pVars, aVars, mVars, bVars, rVars>>

\* The metadata service refuses a project that is not BigQuery (it throws),
\* and else prepares the stored credentials and calls the service.
MetadataPrepare ==
  /\ dEntry = "metadata"
  /\ dPc = "called"
  /\ IF dInput.type # "BIG_QUERY"
     THEN /\ dPc' = "done"
          /\ dResult' = Thrown
          /\ UNCHANGED <<dCreds, dFailure>>
     ELSE LET prepared == Prepared[dInput.stored]
          IN  IF prepared.failure # "none"
              THEN /\ dPc' = "done"
                   /\ dResult' = ProcessingFailed
                   /\ dFailure' = FailedAt(prepared.failure, NoCodeError)
                   /\ UNCHANGED dCreds
              ELSE /\ dPc' = "decode"
                   /\ dCreds' = prepared.creds
                   /\ UNCHANGED <<dResult, dFailure>>
  /\ UNCHANGED <<dEntry, dInput, dListed, dMeta, vVars, tVars, cVars, fVars, pVars, aVars, mVars, bVars, rVars>>

\* The service decodes its credentials argument.
ServiceDecode ==
  /\ dEntry # "handler"
  /\ dPc = "decode"
  /\ IF Decoded[dCreds].ok
     THEN dPc' = "import" /\ UNCHANGED <<dResult, dFailure>>
     ELSE /\ dPc' = "done"
          /\ dResult' = InvalidCredentials
          /\ dFailure' = FailedAt("format", NoCodeError)
  /\ UNCHANGED <<dEntry, dInput, dCreds, dListed, dMeta, vVars, tVars, cVars, fVars, pVars, aVars, mVars, bVars, rVars>>

\* The import of the client library and new BigQuery(...): either may throw.
ClientBuilt ==
  /\ dPc = "import"
  /\ \E ok \in BOOLEAN, err \in Errors :
       IF ok
       THEN dPc' = "list" /\ UNCHANGED <<dResult, dFailure>>
       ELSE /\ dPc' = "done"
            /\ dResult' = CaughtResult(dEntry, err)
            /\ dFailure' = FailedAt("client", err)
  /\ UNCHANGED <<dEntry, dInput, dCreds, dListed, dMeta, vVars, tVars, cVars, fVars, pVars, aVars, mVars, bVars, rVars>>

\* bigquery.getDatasets() resolves: one getMetadata call per dataset starts.
DatasetsListed ==
  /\ dPc = "list"
  /\ \E l \in Enumerations :
       /\ dListed' = l
       /\ dMeta' = [i \in 1..Len(l) |-> "pending"]
  /\ dPc' = "metadata"
  /\ UNCHANGED <<dEntry, dInput, dCreds, dFailure, dResult, vVars, tVars, cVars, fVars, pVars, aVars, mVars, bVars, rVars>>

\* bigquery.getDatasets() rejects: the catch block maps the error.
ListingFailed ==
  /\ dPc = "list"
  /\ \E err \in Errors :
       /\ dResult' = CaughtResult(dEntry, err)
       /\ dFailure' = FailedAt("list", err)
  /\ dPc' = "done"
  /\ UNCHANGED <<dEntry, dInput, dCreds, dListed, dMeta, vVars, tVars, cVars, fVars, pVars, aVars, mVars, bVars, rVars>>

\* The getMetadata call of the dataset at position i resolves or rejects (its
\* own catch keeps the id).
MetadataFetched(i) ==
  /\ dPc = "metadata"
  /\ dMeta[i] = "pending"
  /\ \E ok \in BOOLEAN : dMeta' = [dMeta EXCEPT ![i] = IF ok THEN "ok" ELSE "failed"]
  /\ UNCHANGED <<dEntry, dInput, dPc, dCreds, dFailure, dListed, dResult, vVars, tVars, cVars, fVars, pVars, aVars, mVars, bVars, rVars>>

\* Promise.all settles: the datasets are returned.
DiscoverReturn ==
  /\ dPc = "metadata"
  /\ \A i \in 1..Len(dListed) : dMeta[i] # "pending"
  /\ dResult' = Success(IF dEntry = "handler" THEN 200 ELSE 0,
                        DatasetInfos(dListed, dMeta))
  /\ dPc' = "done"
  /\ UNCHANGED <<dEntry, dInput, dCreds, dFailure, dListed, dMeta, vVars, tVars, cVars, fVars, pVars, aVars, mVars, bVars, rVars>>

DiscoverNext ==
  \/ HandlerCheck
  \/ MetadataPrepare
  \/ ServiceDecode
  \/ ClientBuilt
  \/ DatasetsListed
  \/ ListingFailed
  \/ \E i \in 1..Len(dListed) : MetadataFetched(i)
  \/ DiscoverReturn

\* --------------------------------------------------- claims (discovery)
\* The error code and requiresManualInput that belong to a thrown error's code.
ExpectedMapping(code) ==
  IF code \in {"403", "'PERMISSION_DENIED'"} THEN <<"INSUFFICIENT_PERMISSIONS", TRUE>>
  ELSE IF code \in {"401", "'UNAUTHENTICATED'"} THEN <<"AUTHENTICATION_FAILED", FALSE>>
  ELSE IF code \in {"404", "'NOT_FOUND'"} THEN <<"PROJECT_NOT_FOUND", FALSE>>
  ELSE <<"DISCOVERY_FAILED", TRUE>>

\* C7: when building the client or listing the datasets fails, discovery
\* returns success=false with the error that the thrown code maps to (403 or
\* PERMISSION_DENIED: INSUFFICIENT_PERMISSIONS, manual input; 401 or
\* UNAUTHENTICATED: AUTHENTICATION_FAILED, none; 404 or NOT_FOUND:
\* PROJECT_NOT_FOUND, none; anything else: DISCOVERY_FAILED, manual input), and
\* the service and the API handler map every error to the same error.
C7_ErrorMapping ==
  /\ dFailure.step \in {"client", "list"} =>
       /\ dResult.status = "returned"
       /\ ~dResult.success
       /\ <<dResult.error.code, dResult.error.requiresManualInput>>
            = ExpectedMapping(dFailure.error.code)
  /\ \A err \in Errors : ServiceErrorResult(err).error = HandlerErrorResult(err).error

C7_Witness ==
  /\ dEntry = "handler"
  /\ dFailure.step = "list"
  /\ dFailure.error.code = "'PERMISSION_DENIED'"
  /\ dResult.status = "returned"
  /\ dResult.error.code = "INSUFFICIENT_PERMISSIONS"
  /\ dResult.error.requiresManualInput

\* C8: whenever the credentials cannot be decoded (the service finds them
\* neither base64 JSON nor JSON, or the metadata service cannot decrypt or
\* parse the stored ones), discovery returns success=false with
\* INVALID_CREDENTIALS and requiresManualInput=false.
C8_UndecodableIsInvalidCredentials ==
  dFailure.step \in {"format", "decrypt", "wrapper"} =>
    /\ dResult.status = "returned"
    /\ ~dResult.success
    /\ dResult.error.code = "INVALID_CREDENTIALS"
    /\ ~dResult.error.requiresManualInput

\* C11: once the datasets are enumerated, the call can only end by returning
\* success=true with one DatasetInfo per enumerated dataset in enumeration
\* order (none for an empty project), whichever metadata calls failed; a
\* dataset whose metadata call failed has only its id.
C11_OneInfoPerEnumeratedDataset ==
  [][dPc = "metadata" =>
       /\ dPc' \in {"metadata", "done"}
       /\ dPc' = "done" =>
            /\ dResult'.status = "returned"
            /\ dResult'.success
            /\ Len(dResult'.datasets) = Len(dListed)
            /\ \A i \in 1..Len(dListed) :
                 /\ dResult'.datasets[i].id = dListed[i]
                 /\ dMeta[i] = "failed" => dResult'.datasets[i].fields = {}
                 /\ dMeta[i] = "ok" => dResult'.datasets[i].fields = MetadataFields]_vars

C11_Witness ==
  /\ dPc = "done"
  /\ Len(dListed) = 2
  /\ dMeta = <<"failed", "ok">>
  /\ dResult.success
  /\ Len(dResult.datasets) = 2
  /\ dResult.datasets[1] = [id |-> dListed[1], fields |-> {}]
  /\ dResult.datasets[2].fields = MetadataFields

\* C12: a discovery result of the service, the metadata service or the handler
\* has exactly one branch: success=true with datasets and no error, or
\* success=false with error and no datasets.
C12_ExactlyOneBranch ==
  dResult.status = "returned" =>
    \/ dResult.success /\ dResult.keys = {"success", "datasets"}
    \/ ~dResult.success /\ dResult.keys = {"success", "error"}

C12_Witness ==
  /\ dEntry = "metadata"
  /\ dResult.status = "returned"
  /\ ~dResult.success
  /\ dResult.keys = {"success", "error"}
  /\ dResult.error.code = "INVALID_CREDENTIALS"

\* Whether manual input is offered exactly for the two recoverable codes.
ManualIffRecoverable(error) ==
  error.requiresManualInput
    <=> error.code \in {"INSUFFICIENT_PERMISSIONS", "DISCOVERY_FAILED"}

\* C13: in every discovery error (of the service, the metadata service, the
\* handler, and the one the orchestrator makes of a failed request),
\* requiresManualInput is true exactly when the code is
\* INSUFFICIENT_PERMISSIONS or DISCOVERY_FAILED.
C13_ManualInputIffRecoverable ==
  /\ (dResult.status = "returned" /\ ~dResult.success) =>
       ManualIffRecoverable(dResult.error)
  /\ ManualIffRecoverable(TransportError)

C13_Witness ==
  /\ dEntry = "metadata"
  /\ dFailure.step = "decrypt"
  /\ dResult.error.code = "DISCOVERY_FAILED"
  /\ dResult.error.requiresManualInput

\* C25: the discovery API handler answers 405 exactly when the method is not
\* POST, 400 exactly when the method is POST and projectId or credentials is
\* missing, and 200 in every other case, warehouse failures included (carried
\* as success=false in the body).
MissingInput == ~dInput.hasProjectId \/ dInput.creds.kind = "undefined"
C25_HandlerStatus ==
  (dEntry = "handler" /\ dPc = "done") =>
    /\ dResult.status = "returned"
    /\ dResult.http = 405 <=> dInput.method # "POST"
    /\ dResult.http = 400 <=> (dInput.method = "POST" /\ MissingInput)
    /\ (dInput.method = "POST" /\ ~MissingInput) => dResult.http = 200
    /\ dFailure.step # "none" => (dResult.http = 200 /\ ~dResult.success)

\* C25 witness: a well-formed POST whose dataset listing failed with 403 is
\* answered 200 with success=false.
C25_Witness ==
  /\ dEntry = "handler"
  /\ dPc = "done"
  /\ dInput.method = "POST"
  /\ dFailure.step = "list"
  /\ dFailure.error.code = "403"
  /\ dResult.http = 200
  /\ ~dResult.success
  /\ dResult.error.code = "INSUFFICIENT_PERMISSIONS"

\* C14: the metadata service's discoverDatasets never throws, whatever the
\* project's type and stored credentials.
C14_MetadataServiceNeverThrows ==
  dEntry = "metadata" => dResult.status # "threw"

\* --------------------------------------------------------------- decoding
\* The names and values of a service-account key's fields (a private key
\* holds line breaks and base64 characters).
KeyNames ==
  {Codes(<<"t", "y", "p", "e">>),
   Codes(<<"p", "r", "o", "j", "e", "c", "t", "_", "i", "d">>),
   Codes(<<"p", "r", "i", "v", "a", "t", "e", "_", "k", "e", "y">>),
   Codes(<<"c", "l", "i", "e", "n", "t", "_", "e", "m", "a", "i", "l">>)}
KeyValues ==
  {Codes(<<"s", "e", "r", "v", "i", "c", "e", "_", "a", "c", "c", "o", "u", "n", "t">>),
   <<45, 45, 10>> \o Codes(<<"M", "I", "+", "/", "=">>) \o <<10>>,
   Codes(<<"a", "@", "b", ".", "c">>)}

\* The keys: one to MaxFields fields with distinct names.
ServiceAccountKeys ==
  {f \in UNION {[1..n -> KeyNames \X KeyValues] : n \in 1..MaxFields} :
     \A i \in 1..Len(f), j \in 1..Len(f) : i # j => f[i][1] # f[j][1]}

\* The JSON text of a key.
KeyText(fields, form) ==
  IF form = "keyfile" THEN KeyFileText(fields) ELSE JsonStringify(ObjectOf(fields))

NotDecoded == [ok |-> FALSE, val |-> ParseFail.val, path |-> "pending"]

DecodeInit ==
  /\ cFields \in ServiceAccountKeys
  /\ cForm \in {"compact", "keyfile"}
  /\ cPlain = NotDecoded
  /\ cBase64 = NotDecoded

\* discoverDatasets is given the key's JSON text.
DecodePlain ==
  /\ cPlain = NotDecoded
  /\ \E creds \in {StringCreds(KeyText(cFields, cForm))} :
       cPlain' = DecodeCredentials(creds)
  /\ UNCHANGED <<cFields, cForm, cBase64, vVars, tVars, dVars, fVars, pVars, aVars, mVars, bVars, rVars>>

\* discoverDatasets is given the base64 of the key's JSON text.
DecodeBase64 ==
  /\ cBase64 = NotDecoded
  /\ \E creds \in {StringCreds(Base64Encode(KeyText(cFields, cForm)))} :
       cBase64' = DecodeCredentials(creds)
  /\ UNCHANGED <<cFields, cForm, cPlain, vVars, tVars, dVars, fVars, pVars, aVars, mVars, bVars, rVars>>

DecodeNext ==
  \/ DecodePlain
  \/ DecodeBase64

\* ---------------------------------------------------- claims (decoding)
\* C9: a service-account key decodes to the same credentials, the key's own
\* fields, whether it is given as JSON text or as the base64 of that text: the
\* base64 form is decoded by the first attempt, the JSON text by the second
\* (the first having failed on it).
C9_EncodingIndependent ==
  /\ cBase64 # NotDecoded =>
       /\ cBase64.ok
       /\ cBase64.path = "base64"
       /\ cBase64.val = ObjectOf(cFields)
  /\ cPlain # NotDecoded =>
       /\ cPlain.ok
       /\ cPlain.path = "plain"
       /\ cPlain.val = ObjectOf(cFields)
  /\ (cBase64 # NotDecoded /\ cPlain # NotDecoded) => cPlain.val = cBase64.val

C9_Witness ==
  /\ Len(cFields) = 2
  /\ \E i \in 1..Len(cFields) : 10 \in Range(cFields[i][2])
  /\ cForm = "keyfile"
  /\ cPlain.ok /\ cPlain.path = "plain"
  /\ cBase64.ok /\ cBase64.path = "base64"
  /\ cPlain.val = cBase64.val

\* ------------------------------------------------------------ setup flow
\* useState's initial SetupFlowState; datasetError null is NoError.
InitialState ==
  [datasets |-> << >>, datasetError |-> NoError, selectedDatasets |-> << >>,
   tables |-> << >>, loading |-> FALSE]

\* The state updates of the discovery query's callbacks.
OnCompletedClearsTables(prev, result) ==
  IF result.success
  THEN [prev EXCEPT !.datasets = result.datasets, !.datasetError = NoError,
                    !.tables = << >>]
  ELSE [prev EXCEPT !.datasets = << >>, !.datasetError = result.error]
OnCompleted(prev, result) ==
  IF result.success
  THEN [prev EXCEPT !.datasets = result.datasets, !.datasetError = NoError]
  ELSE [prev EXCEPT !.datasets = << >>, !.datasetError = result.error]

OnErrorNotManual(prev) ==
  [prev EXCEPT !.datasets = << >>,
               !.datasetError = [TransportError EXCEPT !.requiresManualInput = FALSE]]
OnErrorKeepsDatasets(prev) == [prev EXCEPT !.datasetError = TransportError]
OnError(prev) == [prev EXCEPT !.datasets = << >>, !.datasetError = TransportError]

\* The state updates of the table query's callbacks: the tables, or [] for
\* a null answer and for an error.
TablesCompleted(prev, reply) ==
  [prev EXCEPT !.tables = IF reply.present THEN reply.tables ELSE << >>]
TablesError(prev) == [prev EXCEPT !.tables = << >>]

\* The state resetState sets.
ResetKeepsSelection(prev) ==
  [datasets |-> << >>, datasetError |-> NoError,
   selectedDatasets |-> prev.selectedDatasets, tables |-> << >>, loading |-> FALSE]
Reset(prev) ==
  [datasets |-> << >>, datasetError |-> NoError, selectedDatasets |-> << >>,
   tables |-> << >>, loading |-> FALSE]

\* The state updates of the action functions: loading set on entry and
\* cleared in the finally block, the selection stored on entry.
Started(prev) == [prev EXCEPT !.loading = TRUE]
SelectedClearsTables(prev, ids) ==
  [prev EXCEPT !.selectedDatasets = ids, !.loading = TRUE, !.tables = << >>]
Selected(prev, ids) == [prev EXCEPT !.selectedDatasets = ids, !.loading = TRUE]
FinishedOnSuccess(prev) ==
  IF prev.datasetError = NoError THEN [prev EXCEPT !.loading = FALSE] ELSE prev
Finished(prev) == [prev EXCEPT !.loading = FALSE]

\* What the hook returns as loading and as requiresManualInput.
Loading == fState.loading \/ fDiscovering \/ fFetching
RequiresManualInput(state) ==
  IF state.datasetError = NoError THEN FALSE
  ELSE state.datasetError.requiresManualInput

\* The answers to the discovery query: results of the metadata service.
DiscoveryReplies ==
  {Success(0, << >>),
   Success(0, <<DatasetInfo("a", "ok")>>),
   Success(0, <<DatasetInfo("a", "failed"), DatasetInfo("b", "ok")>>),
   InvalidCredentials,
   ProcessingFailed,
   ServiceErrorResult([code |-> "403", hasMessage |-> TRUE]),
   ServiceErrorResult([code |-> "404", hasMessage |-> TRUE])}

\* The datasetIds given to handleDatasetSelection: picked from the discovered
\* datasets, or typed in (where an id may be repeated).
Selections ==
  {<< >>, <<"a">>, <<"a", "b">>, <<"b", "a">>, <<"c", "c">>}

\* The answers to the validation query for ids: every outcome of the
\* per-position checks, or a failed request.
ValidationFailed ==
  [status |-> "rejected", accessible |-> << >>, inaccessible |-> << >>]
ValidationReplies(ids) ==
  {SettledPartition(ids, task, [i \in 1..Len(ids) |-> i]) :
     task \in [1..Len(ids) -> {"true", "false", "threw"}]}
  \cup {ValidationFailed}

NoAccessResult == PendingPartition

\* The answers to the table query for ids: a table of each dataset, or null.
TableReplies(ids) ==
  {[present |-> TRUE,
    tables |-> [i \in 1..Len(ids) |-> [name |-> "orders", dataset |-> ids[i]]]],
   [present |-> FALSE, tables |-> << >>]}

\* The datasetIds of the table request in flight.
LastIssued == IF fIssued = << >> THEN << >> ELSE fIssued[Len(fIssued)]

FlowInit ==
  /\ fState = InitialState
  /\ fDiscovering = FALSE
  /\ fFetching = FALSE
  /\ fConn = "idle"
  /\ fSel = "idle"
  /\ fSelIds = << >>
  /\ fAccess = NoAccessResult
  /\ fIssued = << >>
  /\ fVia = "none"

\* handleConnectionCreated up to its await: loading is set, the discovery
\* query is started.
ConnectionStarted ==
  /\ fConn = "idle"
  /\ fState' = Started(fState)
  /\ fDiscovering' = TRUE
  /\ fConn' = "awaiting"
  /\ UNCHANGED <<fFetching, fSel, fSelIds, fAccess, fIssued, fVia, vVars, tVars, dVars, cVars, pVars, aVars>>

\* handleConnectionCreated(projectId) called directly.
ConnectionCreated ==
  /\ ConnectionStarted
  /\ UNCHANGED <<mVars, bVars, rVars>>

\* The discovery query is answered: onCompleted runs with the result.
DiscoveryCompleted(result) ==
  /\ fConn = "awaiting"
  /\ fState' = OnCompleted(fState, result)
  /\ fDiscovering' = FALSE
  /\ fConn' = "finally"
  /\ UNCHANGED <<fFetching, fSel, fSelIds, fAccess, fIssued, fVia, vVars, tVars, dVars, cVars, pVars, aVars, mVars, bVars, rVars>>

\* The discovery query fails in transport: onError runs.
DiscoveryErrored ==
  /\ fConn = "awaiting"
  /\ fState' = OnError(fState)
  /\ fDiscovering' = FALSE
  /\ fConn' = "finally"
  /\ UNCHANGED <<fFetching, fSel, fSelIds, fAccess, fIssued, fVia, vVars, tVars, dVars, cVars, pVars, aVars, mVars, bVars, rVars>>

\* The finally block of handleConnectionCreated.
ConnectionFinally ==
  /\ fConn = "finally"
  /\ fState' = Finished(fState)
  /\ fConn' = "idle"
  /\ UNCHANGED <<fDiscovering, fFetching, fSel, fSelIds, fAccess, fIssued, fVia,
                 vVars, tVars, dVars, cVars, pVars, aVars, mVars, bVars, rVars>>

\* The body of handleDatasetSelection up to its first await: the selection
\* and loading are set, validation is requested for ids.
SelectionStarted(ids) ==
  /\ fSel = "idle"
  /\ fState' = Selected(fState, ids)
  /\ fSel' = "validating"
  /\ fSelIds' = ids
  /\ fAccess' = NoAccessResult
  /\ fIssued' = << >>
  /\ UNCHANGED <<fDiscovering, fFetching, fConn, vVars, tVars, dVars, cVars, pVars, aVars>>

\* handleDatasetSelection(projectId, datasetIds) called directly.
DatasetSelection(ids) ==
  /\ SelectionStarted(ids)
  /\ fVia' = "selection"
  /\ UNCHANGED <<mVars, bVars, rVars>>

\* The datasetIds handleManualDatasetInput hands to handleDatasetSelection.
ManualArgumentsSorted(ids) ==
  IF Len(ids) = 2 /\ ids[1] = "b" THEN <<ids[2], ids[1]>> ELSE ids
ManualArguments(ids) == ids

\* handleManualDatasetInput(projectId, datasetIds): awaits
\* handleDatasetSelection, which runs up to its first await.
ManualDatasetInput(ids) ==
  /\ SelectionStarted(ManualArguments(ids))
  /\ fVia' = "manual"
  /\ UNCHANGED <<mVars, bVars, rVars>>

\* validateAccess returns (a rejected request gives no data): with accessible
\* ids the table query is started, else the finally block is next.
ValidationReturned(reply) ==
  /\ fSel = "validating"
  /\ fAccess' = reply
  /\ IF reply.status = "resolved" /\ Len(reply.accessible) > 0
     THEN /\ fIssued' = Append(fIssued, reply.accessible)
          /\ fFetching' = TRUE
          /\ fSel' = "fetching"
     ELSE /\ fSel' = "finally"
          /\ UNCHANGED <<fIssued, fFetching>>
  /\ UNCHANGED <<fState, fDiscovering, fConn, fSelIds, fVia, vVars, tVars, dVars, cVars, pVars, aVars, mVars, bVars, rVars>>

\* The table query is answered: its onCompleted runs.
TablesFetchCompleted(reply) ==
  /\ fSel = "fetching"
  /\ fState' = TablesCompleted(fState, reply)
  /\ fFetching' = FALSE
  /\ fSel' = "finally"
  /\ UNCHANGED <<fDiscovering, fConn, fSelIds, fAccess, fIssued, fVia, vVars, tVars, dVars, cVars, pVars, aVars, mVars, bVars, rVars>>

\* The table query fails: its onError runs.
TablesFetchErrored ==
  /\ fSel = "fetching"
  /\ fState' = TablesError(fState)
  /\ fFetching' = FALSE
  /\ fSel' = "finally"
  /\ UNCHANGED <<fDiscovering, fConn, fSelIds, fAccess, fIssued, fVia, vVars, tVars, dVars, cVars, pVars, aVars, mVars, bVars, rVars>>

\* The finally block of handleDatasetSelection; the call is over.
SelectionFinished ==
  /\ fSel = "finally"
  /\ fState' = Finished(fState)
  /\ fSel' = "idle"
  /\ fSelIds' = << >>
  /\ fAccess' = NoAccessResult
  /\ fIssued' = << >>
  /\ fVia' = "none"
  /\ UNCHANGED <<fDiscovering, fFetching, fConn, vVars, tVars, dVars, cVars, pVars, aVars>>

\* The promise of handleDatasetSelection resolves for a caller that does
\* nothing with it.
SelectionFinally ==
  /\ SelectionFinished
  /\ UNCHANGED <<mVars, bVars, rVars>>

\* resetState, at any time.
ResetState ==
  /\ fState' = Reset(fState)
  /\ UNCHANGED <<fDiscovering, fFetching, fConn, fSel, fSelIds, fAccess, fIssued, fVia,
                 vVars, tVars, dVars, cVars, pVars, aVars, mVars, bVars, rVars>>

FlowNext ==
  \/ ConnectionCreated
  \/ \E result \in DiscoveryReplies : DiscoveryCompleted(result)
  \/ DiscoveryErrored
  \/ ConnectionFinally
  \/ \E ids \in Selections : DatasetSelection(ids)
  \/ \E ids \in Selections : ManualDatasetInput(ids)
  \/ \E reply \in ValidationReplies(fSelIds) : ValidationReturned(reply)
  \/ \E reply \in TableReplies(LastIssued) : TablesFetchCompleted(reply)
  \/ TablesFetchErrored
  \/ SelectionFinally
  \/ ResetState

\* ----------------------------------------------------- claims (setup flow)
\* A request of the flow is in flight.
DiscoveryInFlight == fConn = "awaiting"
ValidationInFlight == fSel = "validating"
AggregationInFlight == fSel = "fetching"

\* C15: in every reachable state, overlapping handlers included, the loading
\* flag the hook exposes is true whenever a discovery, validation or table
\* request is in flight.
C15_LoadingWhileInFlight ==
  (DiscoveryInFlight \/ ValidationInFlight \/ AggregationInFlight) => Loading

\* The parts of C17 about one execution of handleDatasetSelection.
IssuedAtMostOnce == Len(fIssued) <= 1
IssuedAfterValidation ==
  fIssued # << >> => fSel \in {"fetching", "finally"} /\ fAccess.status = "resolved"
IssuedWithAccessible ==
  \A k \in 1..Len(fIssued) : fIssued[k] = fAccess.accessible
NoInaccessibleIssued ==
  \A k \in 1..Len(fIssued) :
    Range(fIssued[k]) \cap Range(fAccess.inaccessible) = {}
NoneIssuedWithoutAccessible ==
  (fSel = "finally" /\ (fAccess.status # "resolved" \/ fAccess.accessible = << >>))
    => fIssued = << >>

\* C17: in every execution of handleDatasetSelection the table request is
\* issued at most once, only after validation returned, with datasetIds equal
\* to the accessible list; no inaccessible id is passed, and nothing is issued
\* when the accessible list is empty or validation failed.
C17_AggregationOnlyAccessible ==
  /\ IssuedAtMostOnce
  /\ IssuedAfterValidation
  /\ IssuedWithAccessible
  /\ NoInaccessibleIssued
  /\ NoneIssuedWithoutAccessible

\* C21: handleManualDatasetInput(projectId, ids) is the same flow as
\* handleDatasetSelection(projectId, ids): from the same state it makes the
\* step of the selection handler for the same ids (same state update, same
\* validation request); the rest of the execution is the selection handler's.
C21_ManualIsSelection ==
  [][\A ids \in Selections :
       ManualDatasetInput(ids) => SelectionStarted(ids)]_vars

C21_Witness ==
  /\ fVia = "manual"
  /\ fSel = "finally"
  /\ fSelIds = <<"b", "a">>
  /\ fAccess.accessible = <<"b", "a">>
  /\ fIssued = <<(<<"b", "a">>)>>
  /\ fState.selectedDatasets = <<"b", "a">>
  /\ Len(fState.tables) = 2

\* C18: when a discovery request completes successfully, datasets is the
\* returned list and datasetError is null, with selectedDatasets and tables
\* unchanged.
C18_DiscoverySuccessEffect ==
  [][\A result \in DiscoveryReplies :
       (result.success /\ DiscoveryCompleted(result)) =>
         /\ fState'.datasets = result.datasets
         /\ fState'.datasetError = NoError
         /\ fState'.selectedDatasets = fState.selectedDatasets
         /\ fState'.tables = fState.tables]_vars

C18_Witness ==
  /\ fConn = "finally"
  /\ fState.datasets = <<DatasetInfo("a", "failed"), DatasetInfo("b", "ok")>>
  /\ fState.datasetError = NoError
  /\ fState.selectedDatasets = <<"a", "b">>
  /\ Len(fState.tables) = 1

\* C19: when a discovery request completes with a failure, datasetError is the
\* returned error and datasets is empty; when it fails in transport,
\* datasetError has code DISCOVERY_FAILED and requiresManualInput true, so the
\* requiresManualInput the flow exposes is true.
C19_DiscoveryFailureEffect ==
  [][/\ \A result \in DiscoveryReplies :
          (~result.success /\ DiscoveryCompleted(result)) =>
            /\ fState'.datasetError = result.error
            /\ fState'.datasets = << >>
     /\ DiscoveryErrored =>
          /\ fState'.datasetError.code = "DISCOVERY_FAILED"
          /\ fState'.datasetError.requiresManualInput
          /\ RequiresManualInput(fState')]_vars

C19_Witness ==
  /\ fConn = "finally"
  /\ fState.datasetError = TransportError
  /\ fState.datasets = << >>
  /\ RequiresManualInput(fState)
  /\ fState.selectedDatasets = <<"a">>

\* C20: from every reachable state resetState gives the idle state: datasets
\* [], datasetError null, selectedDatasets [], tables [], loading false.
C20_ResetGivesIdle ==
  [][ResetState =>
       /\ fState'.datasets = << >>
       /\ fState'.datasetError = NoError
       /\ fState'.selectedDatasets = << >>
       /\ fState'.tables = << >>
       /\ fState'.loading = FALSE]_vars

\* Reset while a selection is being validated and a discovery is awaited: the
\* selection set by the handler is gone again.
C20_Witness ==
  /\ fSel = "validating"
  /\ fSelIds = <<"a", "b">>
  /\ fConn = "awaiting"
  /\ fState = [datasets |-> << >>, datasetError |-> NoError,
               selectedDatasets |-> << >>, tables |-> << >>, loading |-> FALSE]

\* C35: a step of handleDatasetSelection (its entry, the return of its
\* validation, the callback of its table request, its finally block) never
\* changes datasets or datasetError, and changes tables only as the callback
\* of a table request that followed a validation with accessible ids: when
\* the validation failed or gave no accessible id, tables stay as they were.
C35_SelectionFrame ==
  [][fSel' # fSel =>
       /\ fState'.datasets = fState.datasets
       /\ fState'.datasetError = fState.datasetError
       /\ fState'.tables # fState.tables =>
            /\ fSel = "fetching"
            /\ fAccess.status = "resolved"
            /\ Len(fAccess.accessible) > 0]_vars

\* C35 witness: a selection is in its finally block after a validation that
\* gave no accessible id, and the tables and datasets of before are in place.
C35_Witness ==
  /\ fSel = "finally"
  /\ fAccess.status = "resolved"
  /\ fAccess.accessible = << >>
  /\ fState.selectedDatasets = <<"c", "c">>
  /\ Len(fState.tables) = 2
  /\ Len(fState.datasets) = 1

\* C38: every call of handleConnectionCreated and of handleDatasetSelection
\* comes to its end with state.loading set to false, whatever its requests
\* answered, provided each request is answered.
C38_LoadingCleared ==
  /\ (fConn # "idle") ~> (fConn = "idle" /\ ~fState.loading)
  /\ (fSel # "idle") ~> (fSel = "idle" /\ ~fState.loading)

\* C38 witness: a call of handleConnectionCreated has ended after its request
\* failed in transport, no call is running, and loading is false.
C38_Witness ==
  /\ fConn = "idle"
  /\ fSel = "idle"
  /\ fState.datasetError = TransportError
  /\ ~fState.loading
  /\ ~Loading

\* ---------------------------------------------------- select-models page
\* The fetching flag useSetupModelsWithDatasets hands to the page.
Fetching(datasetFlowActive, isBigQuery, flowLoading, fallbackLoading) ==
  IF datasetFlowActive THEN flowLoading
  ELSE IF isBigQuery THEN FALSE
  ELSE fallbackLoading

\* The tables the page can be given: none, one table of dataset a, a table
\* without a dataset, or the tables of the same name of datasets a and b.
PageTables ==
  {<< >>,
   <<[name |-> "orders", dataset |-> "a"]>>,
   <<[name |-> "orders", dataset |-> ""]>>,
   <<[name |-> "orders", dataset |-> "a"], [name |-> "orders", dataset |-> "b"]>>}

\* The props of a render: discovered is datasets?.length, manualInput is
\* datasetDiscoveryError?.requiresManualInput.
PageProps ==
  [fetching : BOOLEAN, submitting : BOOLEAN, isBigQuery : BOOLEAN,
   discovered : BOOLEAN, manualInput : BOOLEAN, tables : PageTables]

FirstRender ==
  [fetching |-> FALSE, submitting |-> FALSE, isBigQuery |-> FALSE,
   discovered |-> FALSE, manualInput |-> FALSE, tables |-> << >>]

PageSelections == {<< >>, <<"a">>}
PagePicks == {<< >>, <<"orders">>}

NotSubmitted ==
  [called |-> FALSE, selectedTables |-> << >>, selectedDatasets |-> << >>,
   manualDatasets |-> << >>, selections |-> << >>]

\* hasDatasets of the two definitions.
HasDatasets ==
  IF pVersion = "first" THEN pProps.discovered \/ pProps.manualInput
  ELSE pProps.discovered \/ pProps.manualInput \/ pProps.isBigQuery

HasValidDatasetContext ==
  \/ ~pProps.isBigQuery
  \/ Len(pSelected) > 0
  \/ Len(pManual) > 0
  \/ \E k \in 1..Len(pProps.tables) : pProps.tables[k].dataset # ""

\* The disabled prop of the Next button.
NextDisabled ==
  IF pVersion = "first"
  THEN pProps.submitting \/ (HasDatasets /\ Len(pSelected) = 0 /\ Len(pManual) = 0)
  ELSE pProps.submitting \/ (pProps.isBigQuery /\ ~HasValidDatasetContext)

\* The table selector is on the page: no blocking spinner or message.
TablesShown == ~pProps.fetching /\ Len(pProps.tables) > 0

\* form.validateFields(): the rules of the rendered fields.
DatasetsFieldShown == pProps.discovered
ManualFieldShown ==
  IF pVersion = "first" THEN pProps.manualInput
  ELSE pProps.manualInput \/ pProps.isBigQuery
FieldsValid ==
  /\ DatasetsFieldShown => Len(pSelected) > 0
  /\ ManualFieldShown => Len(pManual) > 0
  /\ Len(pProps.tables) > 0 => Len(pPicked) > 0

\* tables.find((t) => t.name === tableName): the first table of that name
\* (0 when there is none), and its properties.dataset ("" when absent).
FirstNamed(tables, name) ==
  IF \E k \in 1..Len(tables) : tables[k].name = name
  THEN CHOOSE k \in 1..Len(tables) :
         /\ tables[k].name = name
         /\ \A j \in 1..(k - 1) : tables[j].name # name
  ELSE 0
DatasetOf(tables, name) ==
  IF FirstNamed(tables, name) = 0 THEN "" ELSE tables[FirstNamed(tables, name)].dataset

\* canBuildSelections: some picked name leads to a table with a dataset.
CanBuildSelections(picked, tables) ==
  \E i \in 1..Len(picked) : DatasetOf(tables, picked[i]) # ""

\* The structured selections of the second definition: one entry per picked
\* name whose table has a dataset.
SelectionsOf(picked, tables) ==
  SelectSeq([i \in 1..Len(picked) |->
               [datasetId |-> DatasetOf(tables, picked[i]), tableName |-> picked[i]]],
            LAMBDA e : e.datasetId # "")

\* submit: what onNext is called with, or nothing when a check stops it.
SubmitFirst ==
  IF ~FieldsValid THEN pNext
  ELSE IF HasDatasets /\ Len(pSelected) = 0 /\ Len(pManual) = 0 THEN pNext
  ELSE [called |-> TRUE, selectedTables |-> pPicked, selectedDatasets |-> pSelected,
        manualDatasets |-> pManual, selections |-> << >>]
SubmitSecond ==
  IF ~FieldsValid THEN pNext
  ELSE IF Len(pPicked) = 0 THEN pNext
  ELSE IF /\ pProps.isBigQuery /\ Len(pSelected) = 0 /\ Len(pManual) = 0
          /\ ~CanBuildSelections(pPicked, pProps.tables) THEN pNext
  ELSE [called |-> TRUE, selectedTables |-> pPicked, selectedDatasets |-> << >>,
        manualDatasets |-> << >>,
        selections |-> IF pProps.isBigQuery
                       THEN SelectionsOf(pPicked, pProps.tables) ELSE << >>]

PageInit ==
  /\ pVersion \in {"first", "second"}
  /\ pProps = FirstRender
  /\ pSelected = << >>
  /\ pManual = << >>
  /\ pPicked = << >>
  /\ pNext = NotSubmitted

\* The parent renders the page with new props.
Render(props, datasetFlowActive, flowLoading, fallbackLoading) ==
  /\ props.fetching = Fetching(datasetFlowActive, props.isBigQuery, flowLoading, fallbackLoading)
  /\ pProps' = props
  /\ UNCHANGED <<pVersion, pSelected, pManual, pPicked, pNext, vVars, tVars, dVars, cVars, fVars, aVars, mVars, bVars, rVars>>

\* The dataset box changes.
SelectDatasets(ids) ==
  /\ pProps.discovered
  /\ pSelected' = ids
  /\ UNCHANGED <<pVersion, pProps, pManual, pPicked, pNext, vVars, tVars, dVars, cVars, fVars, aVars, mVars, bVars, rVars>>

\* The manual dataset text changes.
TypeDatasets(ids) ==
  /\ ManualFieldShown
  /\ pManual' = ids
  /\ UNCHANGED <<pVersion, pProps, pSelected, pPicked, pNext, vVars, tVars, dVars, cVars, fVars, aVars, mVars, bVars, rVars>>

\* The table box changes.
PickTables(names) ==
  /\ TablesShown
  /\ pPicked' = names
  /\ UNCHANGED <<pVersion, pProps, pSelected, pManual, pNext, vVars, tVars, dVars, cVars, fVars, aVars, mVars, bVars, rVars>>

\* A click on Next, possible while the button is not disabled: submit runs.
ClickNext ==
  /\ ~NextDisabled
  /\ pNext' = IF pVersion = "first" THEN SubmitFirst ELSE SubmitSecond
  /\ UNCHANGED <<pVersion, pProps, pSelected, pManual, pPicked, vVars, tVars, dVars, cVars, fVars, aVars, mVars, bVars, rVars>>

PageNext ==
  \/ \E props \in PageProps, active \in BOOLEAN, loading \in BOOLEAN, fallback \in BOOLEAN :
        Render(props, active, loading, fallback)
  \/ \E ids \in PageSelections : SelectDatasets(ids)
  \/ \E ids \in PageSelections : TypeDatasets(ids)
  \/ \E names \in PagePicks : PickTables(names)
  \/ ClickNext

\* ------------------------------------------------ claims (select-models)
\* C16: whenever the fetching flag passed to the select-models page is true,
\* its Next action is disabled and cannot submit a table selection.
C16_NextDisabledWhileFetching == pProps.fetching => NextDisabled

\* C33: a submission for a BigQuery project gives every picked table its own
\* dataset: each table of a picked name that has a dataset tag yields an entry
\* {datasetId, tableName} with that tag, also when tables of two datasets
\* share the name.
C33_EntryPerPickedTable ==
  [][(pVersion = "second" /\ pNext' # pNext /\ pNext'.called /\ pProps.isBigQuery) =>
       \A k \in 1..Len(pProps.tables) :
         (pProps.tables[k].name \in Range(pPicked) /\ pProps.tables[k].dataset # "") =>
           \E i \in 1..Len(pNext'.selections) :
             /\ pNext'.selections[i].datasetId = pProps.tables[k].dataset
             /\ pNext'.selections[i].tableName = pProps.tables[k].name]_vars

\* ------------------------------------------- validation (metadata service)
\* Lines 242-245: decrypt, JSON.parse(...).credentials, handed over as it is.
\* failure names the step that threw.
ExtractCredentials(stored) ==
  IF ~stored.decrypts THEN [failure |-> "decrypt", creds |-> UndefinedCreds]
  ELSE
    The({IF ~wrapper.ok THEN [failure |-> "wrapper", creds |-> UndefinedCreds]
         ELSE IF wrapper.val.t = "lit" /\ wrapper.val.v = LitNull
           THEN [failure |-> "wrapper", creds |-> UndefinedCreds]
         ELSE IF wrapper.val.t # "obj" \/ ~HasMember(wrapper.val.v, CredentialsKey)
           THEN [failure |-> "none", creds |-> UndefinedCreds]
         ELSE
           The({IF actual.t = "str"
                THEN [failure |-> "none", creds |-> StringCreds(actual.v)]
                ELSE [failure |-> "none", creds |-> ObjectCreds] :
                  actual \in {GetMember(wrapper.val.v, CredentialsKey)}}) :
           wrapper \in {JsonParse(stored.text)}})

\* Both computed once per stored value.
Extracted == [st \in StoredCredentials |-> ExtractCredentials(st)]
ExtractedDecodes == [st \in StoredCredentials |-> ParseBase64Json(Extracted[st].creds).ok]

AccessIds == {"a", "b"}

\* The identity partition of a source other than BigQuery.
CheckedAnyway(ids) ==
  [status |-> "resolved", accessible |-> << >>, inaccessible |-> ids]
AllAccessible(ids) ==
  [status |-> "resolved", accessible |-> ids, inaccessible |-> << >>]

\* One per-dataset validateDatasetAccess call from import to return.
AccessCheck(decodes, importOk, clientOk, metadataOk) ==
  IF ~importOk THEN [task |-> CatchAccessFailure("threw"), cause |-> "import"]
  ELSE IF ~decodes THEN [task |-> CatchAccessFailure("threw"), cause |-> "decode"]
  ELSE IF ~clientOk THEN [task |-> CatchAccessFailure("threw"), cause |-> "client"]
  ELSE [task |-> CatchAccessFailure(MetadataStep(metadataOk).task),
        cause |-> MetadataStep(metadataOk).cause]

AccessInit ==
  /\ aSource \in DataSources
  /\ aIds \in SeqsUpTo(AccessIds, MaxIds)
  /\ aStored \in StoredCredentials
  /\ aPc = "start"
  /\ aCreds = UndefinedCreds
  /\ aTask = << >>
  /\ aCause = << >>
  /\ aResult = PendingPartition

\* Not BigQuery: every dataset is assumed accessible.
AccessAssumed ==
  /\ aPc = "start"
  /\ aSource # "BIG_QUERY"
  /\ aResult' = AllAccessible(aIds)
  /\ aPc' = "done"
  /\ UNCHANGED <<aSource, aIds, aStored, aCreds, aTask, aCause,
                 vVars, tVars, dVars, cVars, fVars, pVars, mVars, bVars, rVars>>

\* BigQuery: the stored credentials are decrypted and parsed (a failure
\* rejects the promise), then every per-dataset check is started.
AccessExtract ==
  /\ aPc = "start"
  /\ aSource = "BIG_QUERY"
  /\ IF Extracted[aStored].failure # "none"
     THEN /\ aResult' = ValidationFailed
          /\ aPc' = "done"
          /\ UNCHANGED <<aCreds, aTask, aCause>>
     ELSE /\ aCreds' = Extracted[aStored].creds
          /\ aTask' = [i \in 1..Len(aIds) |-> "pending"]
          /\ aCause' = [i \in 1..Len(aIds) |-> "pending"]
          /\ aPc' = "checking"
          /\ UNCHANGED aResult
  /\ UNCHANGED <<aSource, aIds, aStored, vVars, tVars, dVars, cVars, fVars, pVars, mVars, bVars, rVars>>

\* The check at position i returns.
AccessChecked(i) ==
  /\ aPc = "checking"
  /\ aTask[i] = "pending"
  /\ \E importOk \in BOOLEAN, clientOk \in BOOLEAN, metadataOk \in BOOLEAN :
       /\ aTask' = [aTask EXCEPT ![i] =
                      AccessCheck(ExtractedDecodes[aStored], importOk, clientOk, metadataOk).task]
       /\ aCause' = [aCause EXCEPT ![i] =
                       AccessCheck(ExtractedDecodes[aStored], importOk, clientOk, metadataOk).cause]
  /\ UNCHANGED <<aSource, aIds, aStored, aPc, aCreds, aResult,
                 vVars, tVars, dVars, cVars, fVars, pVars, mVars, bVars, rVars>>

\* Promise.all settles and the partition is returned.
AccessReturn ==
  /\ aPc = "checking"
  /\ ReadyToSettle(aTask)
  /\ aResult' = SettledPartition(aIds, aTask, [i \in 1..Len(aIds) |-> i])
  /\ aPc' = "done"
  /\ UNCHANGED <<aSource, aIds, aStored, aCreds, aTask, aCause,
                 vVars, tVars, dVars, cVars, fVars, pVars, mVars, bVars, rVars>>

AccessNext ==
  \/ AccessAssumed
  \/ AccessExtract
  \/ \E i \in 1..Len(aIds) : AccessChecked(i)
  \/ AccessReturn

\* --------------------------------- claims (validation, metadata service)
\* C23: for a data source other than BigQuery, validateDatasetAccess returns
\* accessible equal to datasetIds (same order) and inaccessible empty, without
\* decrypting credentials or performing any access check.
C23_NonBigQueryAllAccessible ==
  (aSource # "BIG_QUERY" /\ aPc = "done") =>
    /\ aResult.status = "resolved"
    /\ aResult.accessible = aIds
    /\ aResult.inaccessible = << >>
    /\ aCreds = UndefinedCreds
    /\ aTask = << >>

\* C23 witness: a Postgres project with undecryptable stored credentials and
\* a repeated id gets the ids back as accessible.
C23_Witness ==
  /\ aSource = "POSTGRES"
  /\ aPc = "done"
  /\ aStored = Undecryptable
  /\ aIds = <<"b", "a", "b">>
  /\ aResult = [status |-> "resolved", accessible |-> <<"b", "a", "b">>,
                inaccessible |-> << >>]

\* ------------------------------------------------------------ models page
\* useSetupModelsWithDatasets
ProjectTypes == {"BIG_QUERY", "POSTGRES"}

\* getStoredDatasetIds(): the stored array, null (<< >>) when there is none
\* or it is empty.
StoredIds == {<< >>, <<"a">>, <<"a", "b">>}

\* What the page lets the user select.
ModelsSelections == {<< >>, <<"a">>}

\* settingsData?.settings?.dataSource?.type === BIG_QUERY: false until the
\* settings query has answered.
IsBigQuery == mSettings /\ mType = "BIG_QUERY"
\* The type the server knows the project by.
ProjectIsBigQuery == mType = "BIG_QUERY"
FlowHasDatasets == Len(fState.datasets) > 0
HasDatasetError == fState.datasetError # NoError

DatasetFlowActive ==
  \/ Loading
  \/ Len(fState.selectedDatasets) > 0
  \/ Len(fState.tables) > 0
  \/ FlowHasDatasets
  \/ HasDatasetError
  \/ mStored # << >>

\* skip of the plain table query.
FallbackSkipped == DatasetFlowActive \/ IsBigQuery

\* fallbackData?.listDataSourceTables || []
PlainTables == <<[name |-> "customers", dataset |-> ""]>>
FallbackData == IF mFallback = "loaded" THEN PlainTables ELSE << >>

\* tables and fetching as returned to the page.
ShownTables ==
  IF DatasetFlowActive THEN fState.tables
  ELSE IF IsBigQuery THEN << >>
  ELSE FallbackData
ShownFetching == Fetching(DatasetFlowActive, IsBigQuery, Loading, mFallback = "loading")

\* The guard of the discovery effect.
DiscoverDespiteError(projectId, stored, hasDatasets, hasDatasetError) ==
  projectId /\ stored = << >> /\ ~hasDatasets
ShouldDiscover(projectId, stored, hasDatasets, hasDatasetError) ==
  projectId /\ stored = << >> /\ ~hasDatasets /\ ~hasDatasetError

\* What the server answers for the project: discovery throws for a type other
\* than BigQuery, validation assumes every id accessible, tables are the plain
\* listing.
ModelsDiscoveryReplies == IF ProjectIsBigQuery THEN DiscoveryReplies ELSE {}
ModelsValidationReplies(ids) ==
  IF ProjectIsBigQuery THEN ValidationReplies(ids)
  ELSE {AllAccessible(ids), ValidationFailed}
ModelsTableReplies(ids) ==
  IF ProjectIsBigQuery THEN TableReplies(ids)
  ELSE {[present |-> TRUE, tables |-> PlainTables],
        [present |-> FALSE, tables |-> << >>]}

\* The promise of handleDatasetSelection: its try/catch/finally lets no
\* error out, so it resolves whatever happened.
SelectionPromise(access) == "resolved"

\* .then removes the stored ids, .catch keeps them.
AfterProcessing(promise, stored) ==
  IF promise = "resolved" THEN << >> ELSE stored

\* Whether the processing failed: the validation request failed.
ProcessingOutcome(access) ==
  IF access.status = "rejected" THEN "failed" ELSE "processed"

ModelsInit ==
  /\ mType \in ProjectTypes
  /\ mProject = FALSE
  /\ mStored \in StoredIds
  /\ mType # "BIG_QUERY" => mStored = << >>
  /\ mCall = "none"
  /\ mFallback = "idle"
  /\ mSettings = FALSE
  /\ mDiscoveries = 0

\* The onboarding status query answers with the projectId.
ProjectLoaded ==
  /\ ~mProject
  /\ mProject' = TRUE
  /\ UNCHANGED <<mType, mSettings, mDiscoveries, mStored, mCall, mFallback, vVars, tVars, dVars, cVars, fVars, pVars, aVars, bVars, rVars>>

\* The settings query answers with the data source.
SettingsLoaded ==
  /\ ~mSettings
  /\ mSettings' = TRUE
  /\ UNCHANGED <<mType, mProject, mStored, mCall, mFallback, mDiscoveries, vVars, tVars, dVars, cVars, fVars, pVars, aVars, bVars, rVars>>

\* The discovery effect runs (on mount, on a new onboardingData, on a change
\* of hasDatasets or hasDatasetError) and calls
\* handleConnectionCreated(projectId).
DiscoveryEffect ==
  /\ ShouldDiscover(mProject, mStored, FlowHasDatasets, HasDatasetError)
  /\ mDiscoveries < MaxDiscoveries
  /\ ConnectionStarted
  /\ mDiscoveries' = mDiscoveries + 1
  /\ UNCHANGED <<mType, mProject, mStored, mCall, mFallback, mSettings, bVars, rVars>>

\* The server answers the discovery query.
DiscoveryAnswered ==
  \E result \in ModelsDiscoveryReplies : DiscoveryCompleted(result)

\* The discovery query fails: the server threw, or the transport failed.
DiscoveryRejected == DiscoveryErrored

DiscoverySettled == ConnectionFinally

\* The stored-ids effect calls handleDatasetSelection(projectId, stored).
StoredEffect ==
  /\ mProject
  /\ mStored # << >>
  /\ mCall = "none"
  /\ SelectionStarted(mStored)
  /\ fVia' = "selection"
  /\ mCall' = "running"
  /\ UNCHANGED <<mType, mSettings, mDiscoveries, mProject, mStored, mFallback, bVars, rVars>>

\* handleDatasetChange(datasetIds) from the page.
DatasetChange(ids) ==
  /\ mProject
  /\ DatasetSelection(ids)

ValidationAnswered ==
  \E reply \in ModelsValidationReplies(fSelIds) : ValidationReturned(reply)

TablesAnswered ==
  \E reply \in ModelsTableReplies(LastIssued) : TablesFetchCompleted(reply)

TablesRejected == TablesFetchErrored

\* A selection started by the page ends.
SelectionSettled ==
  /\ mCall # "running"
  /\ SelectionFinally

\* The selection started by the stored-ids effect ends, and the callback
\* chained to its promise runs.
StoredProcessed ==
  /\ mCall = "running"
  /\ SelectionFinished
  /\ mStored' = AfterProcessing(SelectionPromise(fAccess), mStored)
  /\ mCall' = ProcessingOutcome(fAccess)
  /\ UNCHANGED <<mType, mSettings, mDiscoveries, mProject, mFallback, bVars, rVars>>

\* The plain table query runs while it is not skipped.
FallbackStarted ==
  /\ ~FallbackSkipped
  /\ mFallback = "idle"
  /\ mFallback' = "loading"
  /\ UNCHANGED <<mType, mSettings, mDiscoveries, mProject, mStored, mCall, vVars, tVars, dVars, cVars, fVars, pVars, aVars, bVars, rVars>>

FallbackLoaded ==
  /\ mFallback = "loading"
  /\ mFallback' = "loaded"
  /\ UNCHANGED <<mType, mSettings, mDiscoveries, mProject, mStored, mCall, vVars, tVars, dVars, cVars, fVars, pVars, aVars, bVars, rVars>>

\* window.location.reload(): the page starts again; local storage stays.
Reload ==
  /\ fState' = InitialState
  /\ fDiscovering' = FALSE
  /\ fFetching' = FALSE
  /\ fConn' = "idle"
  /\ fSel' = "idle"
  /\ fSelIds' = << >>
  /\ fAccess' = NoAccessResult
  /\ fIssued' = << >>
  /\ fVia' = "none"
  /\ mProject' = FALSE
  /\ mCall' = "none"
  /\ mFallback' = "idle"
  /\ mSettings' = FALSE
  /\ mDiscoveries' = 0
  /\ UNCHANGED <<mType, mStored, vVars, tVars, dVars, cVars, pVars, aVars, bVars, rVars>>

ModelsNext ==
  \/ ProjectLoaded
  \/ SettingsLoaded
  \/ DiscoveryEffect
  \/ DiscoveryAnswered
  \/ DiscoveryRejected
  \/ DiscoverySettled
  \/ StoredEffect
  \/ \E ids \in ModelsSelections : DatasetChange(ids)
  \/ ValidationAnswered
  \/ TablesAnswered
  \/ TablesRejected
  \/ SelectionSettled
  \/ StoredProcessed
  \/ FallbackStarted
  \/ FallbackLoaded
  \/ Reload

\* --------------------------------------------------- claims (models page)
\* C24: for a project that is not BigQuery the models page skips the dataset
\* flow: in every reachable state datasetError is null, requiresManualInput is
\* false, and the tables shown are those of the plain table listing rather
\* than the dataset flow's.
C24_NonBigQuerySkipsFlow ==
  ~ProjectIsBigQuery =>
    /\ fState.datasetError = NoError
    /\ ~RequiresManualInput(fState)
    /\ ShownTables = FallbackData

\* C27: after a discovery completed with INVALID_CREDENTIALS,
\* AUTHENTICATION_FAILED or PROJECT_NOT_FOUND, the page starts no discovery on
\* its own: a discovery request starts only in a state without such an error
\* (after a reload or reset).
NonRecoverable == {"INVALID_CREDENTIALS", "AUTHENTICATION_FAILED", "PROJECT_NOT_FOUND"}
C30_StoredKeptOnFailure == mCall = "failed" => mStored # << >>

\* C31: when dataset ids were in local storage as the page was mounted (the
\* stored-ids effect has handed them to handleDatasetSelection), the page
\* starts no discovery request, whatever the order of onboarding-data updates,
\* the end of the selection and the clearing of the storage.
C31_NoDiscoveryWithStoredIds ==
  [][(fConn = "idle" /\ fConn' = "awaiting") => mCall = "none"]_vars

\* C32: for a BigQuery project the plain table query is never started, and
\* the tables shown are the dataset flow's tables or none, also before the
\* settings and the onboarding data have arrived.
C32_NoFallbackForBigQuery ==
  ProjectIsBigQuery =>
    /\ mFallback = "idle"
    /\ ShownTables \in {fState.tables, << >>}

\* C39: the page starts at most one discovery request per mount: after a
\* request has completed, whatever its outcome (a success without datasets
\* included), no render and no onboarding-data update starts another.
C39_OneDiscoveryPerMount == mDiscoveries <= 1

\* ------------------------------------------------------ connection form
\* BigQueryProperties (the BigQuery fields of the connection form) and the
\* Next button of ConnectDataSource
FormProjectIds == {"p1", "p2"}
FormKeys == {"k1", "k2"}

\* useState({ validating: false, discovered: [], discoveryError: null })
InitialLocalState ==
  [validating |-> FALSE, discovered |-> << >>, discoveryError |-> NoError]

\* The answers of /api/internal/bigquery/discover to a POST with both fields:
\* the handler's results, or a fetch / res.json() that rejects ("threw").
FormReplies ==
  {Success(200, << >>),
   Success(200, <<DatasetInfo("a", "ok")>>),
   HandlerErrorResult([code |-> "403", hasMessage |-> TRUE]),
   HandlerErrorResult([code |-> "undefined", hasMessage |-> TRUE]),
   Thrown}

\* The first setLocalState of triggerDiscovery.
Validating(s) ==
  [s EXCEPT !.validating = TRUE, !.discovered = << >>, !.discoveryError = NoError]

\* The setLocalState of the answer (or of the catch block), followed by the
\* one of the finally block.
Answered(s, reply) ==
  IF reply.status = "threw"
  THEN [validating |-> FALSE, discovered |-> << >>, discoveryError |-> TransportError]
  ELSE IF reply.success
  THEN [validating |-> FALSE, discovered |-> reply.datasets, discoveryError |-> NoError]
  ELSE [validating |-> FALSE, discovered |-> << >>, discoveryError |-> reply.error]

\* The effect on [projectId, credentials] calls triggerDiscovery(projectId).
ShouldTrigger(mode, projectId, credentials) ==
  mode # "EDIT" /\ projectId # "" /\ credentials # "none"

\* Form.useWatch('bq_discoveryValidating', form) || false
bqValidating == bValidating = "true"

\* disabled={submitting || bqValidating}
NextButtonDisabled(submitting) == submitting \/ bqValidating

InFlight == {r \in 1..Len(bRequests) : bRequests[r].st = "pending"}

\* The form is mounted: nothing typed, nothing uploaded.
FormInit ==
  /\ bMode \in {"CREATE", "EDIT"}
  /\ bProjectId = ""
  /\ bCredentials = "none"
  /\ bLocal = InitialLocalState
  /\ bValidating = "undefined"
  /\ bRequests = << >>

\* The render after a change of projectId or credentials runs the effect:
\* triggerDiscovery up to its await (local state, the form flag, the fetch),
\* or nothing.
EffectRuns(projectId, credentials) ==
  IF ShouldTrigger(bMode, projectId, credentials)
  THEN /\ Len(bRequests) < MaxRequests
       /\ bLocal' = Validating(bLocal)
       /\ bValidating' = "true"
       /\ bRequests' = Append(bRequests, [projectId |-> projectId, st |-> "pending"])
  ELSE UNCHANGED <<bLocal, bValidating, bRequests>>

\* The user edits the Project ID input (disabled in edit mode).
ProjectIdChanged(v) ==
  /\ bMode # "EDIT"
  /\ v # bProjectId
  /\ bProjectId' = v
  /\ EffectRuns(v, bCredentials)
  /\ UNCHANGED <<bMode, bCredentials, vVars, tVars, dVars, cVars, fVars, pVars, aVars, mVars, rVars>>

\* The user uploads a key file, or removes it.
CredentialsChanged(c) ==
  /\ c # bCredentials
  /\ bCredentials' = c
  /\ EffectRuns(bProjectId, c)
  /\ UNCHANGED <<bMode, bProjectId, vVars, tVars, dVars, cVars, fVars, pVars, aVars, mVars, rVars>>

\* The fetch of request r is answered (or rejects): the rest of
\* triggerDiscovery runs, its finally block included.
FetchAnswered(r, reply) ==
  /\ r \in InFlight
  /\ bLocal' = Answered(bLocal, reply)
  /\ bValidating' = "false"
  /\ bRequests' = [bRequests EXCEPT ![r].st = "done"]
  /\ UNCHANGED <<bMode, bProjectId, bCredentials, vVars, tVars, dVars, cVars, fVars, pVars, aVars, mVars, rVars>>

FormNext ==
  \/ \E v \in FormProjectIds \cup {""} : ProjectIdChanged(v)
  \/ \E c \in FormKeys \cup {"none"} : CredentialsChanged(c)
  \/ \E r \in 1..Len(bRequests), reply \in FormReplies : FetchAnswered(r, reply)

\* ------------------------------------------------ claims (connection form)
\* C29: on the connection form the bq_discoveryValidating flag, which disables
\* Next, is true whenever a discovery request started by triggerDiscovery is
\* in flight, also when two requests overlap; Next is then disabled.
C29_ValidatingWhileInFlight ==
  InFlight # {} => (bqValidating /\ NextButtonDisabled(FALSE))

\* ------------------------------------------- setup flow, overlapping calls
\* useSetupFlow when its action functions are called again while earlier
\* calls are suspended at an await.
ReentrantSelections == {<<"a">>, <<"b">>}
ReentrantDiscoveryReplies ==
  {Success(0, << >>), Success(0, <<DatasetInfo("a", "ok")>>), InvalidCredentials}

ConnectionCall ==
  [kind |-> "connection", ids |-> << >>, pc |-> "discovering", issued |-> << >>, fetchNo |-> 0]
SelectionCall(ids) ==
  [kind |-> "selection", ids |-> ids, pc |-> "validating", issued |-> << >>, fetchNo |-> 0]

InFlightCalls == {i \in 1..Len(rCalls) : rCalls[i].pc # "done"}

\* A request of a lazy query after which the same query was executed again.
\* Whether the callbacks of such a request still run is the client library's
\* matter: both outcomes are taken.
DiscoverySuperseded(i) == \E j \in (i + 1)..Len(rCalls) : rCalls[j].kind = "connection"
FetchSuperseded(i) == \E j \in 1..Len(rCalls) : rCalls[j].fetchNo > rCalls[i].fetchNo
Deliveries(superseded) == IF superseded THEN BOOLEAN ELSE {TRUE}

ReentrantInit ==
  /\ rState = InitialState
  /\ rCalls = << >>
  /\ rFetches = 0
  /\ rQuiet = FALSE
  /\ rOverlap = FALSE

\* handleConnectionCreated(projectId) up to its await.
ConnectionInvoked ==
  /\ Len(rCalls) < MaxCalls
  /\ rState' = Started(rState)
  /\ rCalls' = Append(rCalls, ConnectionCall)
  /\ rQuiet' = FALSE
  /\ UNCHANGED <<rFetches, rOverlap, vVars, tVars, dVars, cVars, fVars, pVars, aVars, mVars, bVars>>

\* handleDatasetSelection(projectId, ids) up to its first await.
SelectionInvoked(ids) ==
  /\ Len(rCalls) < MaxCalls
  /\ rState' = Selected(rState, ids)
  /\ rCalls' = Append(rCalls, SelectionCall(ids))
  /\ rQuiet' = FALSE
  /\ rOverlap' = (rOverlap \/ \E i \in InFlightCalls : rCalls[i].kind = "selection")
  /\ UNCHANGED <<rFetches, vVars, tVars, dVars, cVars, fVars, pVars, aVars, mVars, bVars>>

\* The discovery request of call i is answered: onCompleted.
DiscoveryDelivered(i, result, delivered) ==
  /\ rCalls[i].pc = "discovering"
  /\ delivered \in Deliveries(DiscoverySuperseded(i))
  /\ rState' = IF delivered THEN OnCompleted(rState, result) ELSE rState
  /\ rCalls' = [rCalls EXCEPT ![i].pc = "finally"]
  /\ UNCHANGED <<rFetches, rQuiet, rOverlap, vVars, tVars, dVars, cVars, fVars, pVars, aVars, mVars, bVars>>

\* The discovery request of call i fails in transport: onError.
DiscoveryLost(i, delivered) ==
  /\ rCalls[i].pc = "discovering"
  /\ delivered \in Deliveries(DiscoverySuperseded(i))
  /\ rState' = IF delivered THEN OnError(rState) ELSE rState
  /\ rCalls' = [rCalls EXCEPT ![i].pc = "finally"]
  /\ UNCHANGED <<rFetches, rQuiet, rOverlap, vVars, tVars, dVars, cVars, fVars, pVars, aVars, mVars, bVars>>

\* validateAccess of call i returns: with accessible ids the table query is
\* executed, else the finally block is next.
ValidationDelivered(i, reply) ==
  /\ rCalls[i].pc = "validating"
  /\ IF reply.status = "resolved" /\ Len(reply.accessible) > 0
     THEN /\ rCalls' = [rCalls EXCEPT ![i].pc = "fetching",
                                      ![i].issued = reply.accessible,
                                      ![i].fetchNo = rFetches + 1]
          /\ rFetches' = rFetches + 1
     ELSE /\ rCalls' = [rCalls EXCEPT ![i].pc = "finally"]
          /\ UNCHANGED rFetches
  /\ UNCHANGED <<rState, rQuiet, rOverlap, vVars, tVars, dVars, cVars, fVars, pVars, aVars, mVars, bVars>>

\* The table request of call i is answered: onCompleted.
TablesDelivered(i, reply, delivered) ==
  /\ rCalls[i].pc = "fetching"
  /\ delivered \in Deliveries(FetchSuperseded(i))
  /\ rState' = IF delivered THEN TablesCompleted(rState, reply) ELSE rState
  /\ rCalls' = [rCalls EXCEPT ![i].pc = "finally"]
  /\ UNCHANGED <<rFetches, rQuiet, rOverlap, vVars, tVars, dVars, cVars, fVars, pVars, aVars, mVars, bVars>>

\* The table request of call i fails: onError.
TablesLost(i, delivered) ==
  /\ rCalls[i].pc = "fetching"
  /\ delivered \in Deliveries(FetchSuperseded(i))
  /\ rState' = IF delivered THEN TablesError(rState) ELSE rState
  /\ rCalls' = [rCalls EXCEPT ![i].pc = "finally"]
  /\ UNCHANGED <<rFetches, rQuiet, rOverlap, vVars, tVars, dVars, cVars, fVars, pVars, aVars, mVars, bVars>>

\* The finally block of call i.
CallFinished(i) ==
  /\ rCalls[i].pc = "finally"
  /\ rState' = Finished(rState)
  /\ rCalls' = [rCalls EXCEPT ![i].pc = "done"]
  /\ UNCHANGED <<rFetches, rQuiet, rOverlap, vVars, tVars, dVars, cVars, fVars, pVars, aVars, mVars, bVars>>

\* resetState, at any time.
ResetCalled ==
  /\ rState' = Reset(rState)
  /\ rQuiet' = TRUE
  /\ UNCHANGED <<rCalls, rFetches, rOverlap, vVars, tVars, dVars, cVars, fVars, pVars, aVars, mVars, bVars>>

ReentrantNext ==
  \/ ConnectionInvoked
  \/ \E ids \in ReentrantSelections : SelectionInvoked(ids)
  \/ \E i \in 1..Len(rCalls), result \in ReentrantDiscoveryReplies, delivered \in BOOLEAN :
       DiscoveryDelivered(i, result, delivered)
  \/ \E i \in 1..Len(rCalls), delivered \in BOOLEAN : DiscoveryLost(i, delivered)
  \/ \E i \in 1..Len(rCalls) :
       \E reply \in ValidationReplies(rCalls[i].ids) : ValidationDelivered(i, reply)
  \/ \E i \in 1..Len(rCalls) :
       \E reply \in TableReplies(rCalls[i].issued), delivered \in BOOLEAN :
         TablesDelivered(i, reply, delivered)
  \/ \E i \in 1..Len(rCalls), delivered \in BOOLEAN : TablesLost(i, delivered)
  \/ \E i \in 1..Len(rCalls) : CallFinished(i)
  \/ ResetCalled

\* ---------------------------------- claims (setup flow, overlapping calls)
\* C34: in every state of the flow, datasets is non-empty only when
\* datasetError is null (hasDatasets and hasDatasetError are never both true),
\* whatever the order of discovery answers, selections and resets.
C34_DatasetsOrError ==
  Len(rState.datasets) > 0 => rState.datasetError = NoError

\* C34 witness: datasets are held without an error while the call that
\* discovered them has not ended and a selection is waiting for its tables.
C34_Witness ==
  /\ Len(rState.datasets) > 0
  /\ rState.datasetError = NoError
  /\ \E i \in InFlightCalls : rCalls[i].kind = "connection"
  /\ \E i \in InFlightCalls : rCalls[i].kind = "selection" /\ rCalls[i].pc = "fetching"

\* The later of two selections.
LastSelection ==
  rCalls[CHOOSE i \in 1..Len(rCalls) :
           /\ rCalls[i].kind = "selection"
           /\ \A j \in (i + 1)..Len(rCalls) : rCalls[j].kind # "selection"]

\* C36: when handleDatasetSelection was called again while an earlier call
\* was in flight and both have ended, the tables in state belong to the later
\* call's ids, the ids held in selectedDatasets, in every order of the
\* validation and table answers.
C36_TablesOfLaterSelection ==
  (rOverlap /\ InFlightCalls = {} /\ rState.selectedDatasets = LastSelection.ids) =>
    \A k \in 1..Len(rState.tables) :
      rState.tables[k].dataset \in Range(rState.selectedDatasets)

\* C37: after resetState, until an action function is called again, the
\* state keeps its initial values: no answer to a request issued before the
\* reset changes datasets, datasetError, tables or loading.
C37_QuietAfterReset ==
  rQuiet =>
    /\ rState.datasets = << >>
    /\ rState.datasetError = NoError
    /\ rState.tables = << >>
    /\ ~rState.loading

\* ------------------------------------ validation beside discovery
\* The credential arguments that discovery turns into a service account: a
\* string its decoder accepts, or the parsed object (the metadata service
\* stringifies it before calling discovery).
DiscoveryEncodings ==
  {c \in ValidationCreds : c.kind = "object" \/ Decoded[c].ok}

\* C28: validation accepts the credential encodings that discovery accepts
\* (base64-encoded JSON, plain JSON text, the parsed object): with such an
\* argument no access check comes back false because the credentials could not
\* be decoded, so a dataset the warehouse grants is reported accessible.
C28_SameEncodingsAsDiscovery ==
  vCreds \in DiscoveryEncodings =>
    \A i \in 1..Len(vIds) : ~(vTask[i] = "false" /\ vCause[i] = "decode")

\* ------------------------------------------------- the three batches
\* The access checks of a returned validation batch.
AccessBatchJoined ==
  /\ vResult.status = "resolved"
  /\ Len(vOrder) = Len(vIds)
  /\ \A i \in 1..Len(vIds) :
       /\ Settled(vTask[i])
       /\ i \in Range(vOrder)
       /\ vTask[i] = "true" => vIds[i] \in Range(vResult.accessible)
       /\ vTask[i] = "false" => vIds[i] \in Range(vResult.inaccessible)
  /\ Len(vResult.accessible) + Len(vResult.inaccessible) = Len(vIds)

\* The table fetches of a returned listing.
TableBatchJoined ==
  /\ tOut.status = "resolved"
  /\ \A i \in 1..Len(tIds) :
       /\ tFetch[i].st # "pending"
       /\ tPart[i].st = "done"
       /\ tFetch[i].st = "ok" => Len(FromFetch(tOut.tables, i)) = Len(tFetch[i].tables)
  /\ Len(tOut.tables) = SumLen(tFetch)

\* The metadata fetches of a discovery that enumerated its datasets.
MetadataBatchJoined ==
  /\ dResult.success
  /\ Len(dMeta) = Len(dListed)
  /\ Len(dResult.datasets) = Len(dListed)
  /\ \A i \in 1..Len(dListed) :
       /\ dMeta[i] # "pending"
       /\ dResult.datasets[i].id = dListed[i]
       /\ dMeta[i] = "ok" => dResult.datasets[i].fields = MetadataFields

\* C26: each of the three batched operations (the per-dataset access checks,
\* the per-dataset table fetches, the metadata fetches of discovery) hands its
\* result back only when every task of the batch has completed, whatever the
\* order of completion, and always resolves; a failed task leaves every sibling
\* running and leaves every sibling's result in the output.
C26_BatchesAllSettle ==
  /\ vResult.status # "pending" => AccessBatchJoined
  /\ TablesReturned => TableBatchJoined
  /\ (dPc = "done" /\ dFailure.step = "none" /\ dListed # << >>) => MetadataBatchJoined

\* C26 witness: the three batches ran side by side and each has returned with
\* the result of the task that succeeded beside a failed one (in the access
\* batch the failed check completed first, in the others the failed task is
\* the first of the two).
C26_Witness ==
  /\ vResult.status = "resolved"
  /\ vTask = <<"false", "true">>
  /\ vOrder = <<1, 2>>
  /\ vResult.accessible = <<vIds[2]>>
  /\ vResult.inaccessible = <<vIds[1]>>
  /\ TablesReturned
  /\ Len(tIds) = 2
  /\ tFetch[1].st = "failed"
  /\ tFetch[2].st = "ok"
  /\ Len(tFetch[2].tables) = 2
  /\ Len(tOut.tables) = 2
  /\ dPc = "done"
  /\ dMeta = <<"failed", "ok">>
  /\ Len(dResult.datasets) = 2
  /\ dResult.datasets[2].fields = MetadataFields

\* ------------------------------------------------------- specifications
\* One call of validateMultipleDatasetAccess; nothing else under way.
InitValidate ==
  /\ tSource = "BIG_QUERY"
  /\ tIds = << >>
  /\ tFetch = << >>
  /\ tPart = << >>
  /\ tOut = PendingTables
  /\ dEntry = "service"
  /\ dInput = [method |-> "none", hasProjectId |-> TRUE, creds |-> UndefinedCreds,
               type |-> "BIG_QUERY", stored |-> Undecryptable]
  /\ dPc = "done"
  /\ dCreds = UndefinedCreds
  /\ dFailure = NoFailure
  /\ dListed = << >>
  /\ dMeta = << >>
  /\ dResult = PendingResult
  /\ cFields = SampleFields
  /\ cForm = "compact"
  /\ cPlain = NotDecoded
  /\ cBase64 = NotDecoded
  /\ fState = InitialState
  /\ fDiscovering = FALSE
  /\ fFetching = FALSE
  /\ fConn = "idle"
  /\ fSel = "idle"
  /\ fSelIds = << >>
  /\ fAccess = NoAccessResult
  /\ fIssued = << >>
  /\ fVia = "none"
  /\ pVersion = "first"
  /\ pProps = FirstRender
  /\ pSelected = << >>
  /\ pManual = << >>
  /\ pPicked = << >>
  /\ pNext = NotSubmitted
  /\ aSource = "BIG_QUERY"
  /\ aIds = << >>
  /\ aStored = Undecryptable
  /\ aPc = "done"
  /\ aCreds = UndefinedCreds
  /\ aTask = << >>
  /\ aCause = << >>
  /\ aResult = PendingPartition
  /\ mType = "BIG_QUERY"
  /\ mProject = FALSE
  /\ mStored = << >>
  /\ mCall = "none"
  /\ mFallback = "idle"
  /\ mSettings = FALSE
  /\ mDiscoveries = 0
  /\ bMode = "EDIT"
  /\ bProjectId = ""
  /\ bCredentials = "none"
  /\ bLocal = InitialLocalState
  /\ bValidating = "undefined"
  /\ bRequests = << >>
  /\ rState = InitialState
  /\ rCalls = << >>
  /\ rFetches = 0
  /\ rQuiet = FALSE
  /\ rOverlap = FALSE
  /\ ValidateInit

SpecValidate == InitValidate /\ [][ValidateNext]_vars

\* One call of listTablesFromDatasets; nothing else under way.
InitTables ==
  /\ vIds = << >>
  /\ vCreds = ObjectCreds
  /\ vTask = << >>
  /\ vCause = << >>
  /\ vOrder = << >>
  /\ vResult = PendingPartition
  /\ dEntry = "service"
  /\ dInput = [method |-> "none", hasProjectId |-> TRUE, creds |-> UndefinedCreds,
               type |-> "BIG_QUERY", stored |-> Undecryptable]
  /\ dPc = "done"
  /\ dCreds = UndefinedCreds
  /\ dFailure = NoFailure
  /\ dListed = << >>
  /\ dMeta = << >>
  /\ dResult = PendingResult
  /\ cFields = SampleFields
  /\ cForm = "compact"
  /\ cPlain = NotDecoded
  /\ cBase64 = NotDecoded
  /\ fState = InitialState
  /\ fDiscovering = FALSE
  /\ fFetching = FALSE
  /\ fConn = "idle"
  /\ fSel = "idle"
  /\ fSelIds = << >>
  /\ fAccess = NoAccessResult
  /\ fIssued = << >>
  /\ fVia = "none"
  /\ pVersion = "first"
  /\ pProps = FirstRender
  /\ pSelected = << >>
  /\ pManual = << >>
  /\ pPicked = << >>
  /\ pNext = NotSubmitted
  /\ aSource = "BIG_QUERY"
  /\ aIds = << >>
  /\ aStored = Undecryptable
  /\ aPc = "done"
  /\ aCreds = UndefinedCreds
  /\ aTask = << >>
  /\ aCause = << >>
  /\ aResult = PendingPartition
  /\ mType = "BIG_QUERY"
  /\ mProject = FALSE
  /\ mStored = << >>
  /\ mCall = "none"
  /\ mFallback = "idle"
  /\ mSettings = FALSE
  /\ mDiscoveries = 0
  /\ bMode = "EDIT"
  /\ bProjectId = ""
  /\ bCredentials = "none"
  /\ bLocal = InitialLocalState
  /\ bValidating = "undefined"
  /\ bRequests = << >>
  /\ rState = InitialState
  /\ rCalls = << >>
  /\ rFetches = 0
  /\ rQuiet = FALSE
  /\ rOverlap = FALSE
  /\ TablesInit

SpecTables == InitTables /\ [][TablesNext]_vars

\* One discovery call through one of its three entry points.
InitDiscover ==
  /\ vIds = << >>
  /\ vCreds = ObjectCreds
  /\ vTask = << >>
  /\ vCause = << >>
  /\ vOrder = << >>
  /\ vResult = PendingPartition
  /\ tSource = "BIG_QUERY"
  /\ tIds = << >>
  /\ tFetch = << >>
  /\ tPart = << >>
  /\ tOut = PendingTables
  /\ cFields = SampleFields
  /\ cForm = "compact"
  /\ cPlain = NotDecoded
  /\ cBase64 = NotDecoded
  /\ fState = InitialState
  /\ fDiscovering = FALSE
  /\ fFetching = FALSE
  /\ fConn = "idle"
  /\ fSel = "idle"
  /\ fSelIds = << >>
  /\ fAccess = NoAccessResult
  /\ fIssued = << >>
  /\ fVia = "none"
  /\ pVersion = "first"
  /\ pProps = FirstRender
  /\ pSelected = << >>
  /\ pManual = << >>
  /\ pPicked = << >>
  /\ pNext = NotSubmitted
  /\ aSource = "BIG_QUERY"
  /\ aIds = << >>
  /\ aStored = Undecryptable
  /\ aPc = "done"
  /\ aCreds = UndefinedCreds
  /\ aTask = << >>
  /\ aCause = << >>
  /\ aResult = PendingPartition
  /\ mType = "BIG_QUERY"
  /\ mProject = FALSE
  /\ mStored = << >>
  /\ mCall = "none"
  /\ mFallback = "idle"
  /\ mSettings = FALSE
  /\ mDiscoveries = 0
  /\ bMode = "EDIT"
  /\ bProjectId = ""
  /\ bCredentials = "none"
  /\ bLocal = InitialLocalState
  /\ bValidating = "undefined"
  /\ bRequests = << >>
  /\ rState = InitialState
  /\ rCalls = << >>
  /\ rFetches = 0
  /\ rQuiet = FALSE
  /\ rOverlap = FALSE
  /\ DiscoverInit

SpecDiscover == InitDiscover /\ [][DiscoverNext]_vars

\* One key decoded by discoverDatasets in both encodings.
InitDecode ==
  /\ vIds = << >>
  /\ vCreds = ObjectCreds
  /\ vTask = << >>
  /\ vCause = << >>
  /\ vOrder = << >>
  /\ vResult = PendingPartition
  /\ tSource = "BIG_QUERY"
  /\ tIds = << >>
  /\ tFetch = << >>
  /\ tPart = << >>
  /\ tOut = PendingTables
  /\ dEntry = "service"
  /\ dInput = [method |-> "none", hasProjectId |-> TRUE, creds |-> UndefinedCreds,
               type |-> "BIG_QUERY", stored |-> Undecryptable]
  /\ dPc = "done"
  /\ dCreds = UndefinedCreds
  /\ dFailure = NoFailure
  /\ dListed = << >>
  /\ dMeta = << >>
  /\ dResult = PendingResult
  /\ fState = InitialState
  /\ fDiscovering = FALSE
  /\ fFetching = FALSE
  /\ fConn = "idle"
  /\ fSel = "idle"
  /\ fSelIds = << >>
  /\ fAccess = NoAccessResult
  /\ fIssued = << >>
  /\ fVia = "none"
  /\ pVersion = "first"
  /\ pProps = FirstRender
  /\ pSelected = << >>
  /\ pManual = << >>
  /\ pPicked = << >>
  /\ pNext = NotSubmitted
  /\ aSource = "BIG_QUERY"
  /\ aIds = << >>
  /\ aStored = Undecryptable
  /\ aPc = "done"
  /\ aCreds = UndefinedCreds
  /\ aTask = << >>
  /\ aCause = << >>
  /\ aResult = PendingPartition
  /\ mType = "BIG_QUERY"
  /\ mProject = FALSE
  /\ mStored = << >>
  /\ mCall = "none"
  /\ mFallback = "idle"
  /\ mSettings = FALSE
  /\ mDiscoveries = 0
  /\ bMode = "EDIT"
  /\ bProjectId = ""
  /\ bCredentials = "none"
  /\ bLocal = InitialLocalState
  /\ bValidating = "undefined"
  /\ bRequests = << >>
  /\ rState = InitialState
  /\ rCalls = << >>
  /\ rFetches = 0
  /\ rQuiet = FALSE
  /\ rOverlap = FALSE
  /\ DecodeInit

SpecDecode == InitDecode /\ [][DecodeNext]_vars

\* The setup flow of one page: connection and dataset selection handlers.
InitFlow ==
  /\ vIds = << >>
  /\ vCreds = ObjectCreds
  /\ vTask = << >>
  /\ vCause = << >>
  /\ vOrder = << >>
  /\ vResult = PendingPartition
  /\ tSource = "BIG_QUERY"
  /\ tIds = << >>
  /\ tFetch = << >>
  /\ tPart = << >>
  /\ tOut = PendingTables
  /\ dEntry = "service"
  /\ dInput = [method |-> "none", hasProjectId |-> TRUE, creds |-> UndefinedCreds,
               type |-> "BIG_QUERY", stored |-> Undecryptable]
  /\ dPc = "done"
  /\ dCreds = UndefinedCreds
  /\ dFailure = NoFailure
  /\ dListed = << >>
  /\ dMeta = << >>
  /\ dResult = PendingResult
  /\ cFields = SampleFields
  /\ cForm = "compact"
  /\ cPlain = NotDecoded
  /\ cBase64 = NotDecoded
  /\ pVersion = "first"
  /\ pProps = FirstRender
  /\ pSelected = << >>
  /\ pManual = << >>
  /\ pPicked = << >>
  /\ pNext = NotSubmitted
  /\ aSource = "BIG_QUERY"
  /\ aIds = << >>
  /\ aStored = Undecryptable
  /\ aPc = "done"
  /\ aCreds = UndefinedCreds
  /\ aTask = << >>
  /\ aCause = << >>
  /\ aResult = PendingPartition
  /\ mType = "BIG_QUERY"
  /\ mProject = FALSE
  /\ mStored = << >>
  /\ mCall = "none"
  /\ mFallback = "idle"
  /\ mSettings = FALSE
  /\ mDiscoveries = 0
  /\ bMode = "EDIT"
  /\ bProjectId = ""
  /\ bCredentials = "none"
  /\ bLocal = InitialLocalState
  /\ bValidating = "undefined"
  /\ bRequests = << >>
  /\ rState = InitialState
  /\ rCalls = << >>
  /\ rFetches = 0
  /\ rQuiet = FALSE
  /\ rOverlap = FALSE
  /\ FlowInit

SpecFlow == InitFlow /\ [][FlowNext]_vars

\* The setup flow when every request is answered and every suspended call
\* is resumed.
FlowFairness ==
  /\ WF_vars((\E result \in DiscoveryReplies : DiscoveryCompleted(result)) \/ DiscoveryErrored)
  /\ WF_vars(ConnectionFinally)
  /\ WF_vars(\E reply \in ValidationReplies(fSelIds) : ValidationReturned(reply))
  /\ WF_vars((\E reply \in TableReplies(LastIssued) : TablesFetchCompleted(reply)) \/ TablesFetchErrored)
  /\ WF_vars(SelectionFinally)
SpecFlowFair == SpecFlow /\ FlowFairness

\* The select-models page under renders and user input.
InitPage ==
  /\ vIds = << >>
  /\ vCreds = ObjectCreds
  /\ vTask = << >>
  /\ vCause = << >>
  /\ vOrder = << >>
  /\ vResult = PendingPartition
  /\ tSource = "BIG_QUERY"
  /\ tIds = << >>
  /\ tFetch = << >>
  /\ tPart = << >>
  /\ tOut = PendingTables
  /\ dEntry = "service"
  /\ dInput = [method |-> "none", hasProjectId |-> TRUE, creds |-> UndefinedCreds,
               type |-> "BIG_QUERY", stored |-> Undecryptable]
  /\ dPc = "done"
  /\ dCreds = UndefinedCreds
  /\ dFailure = NoFailure
  /\ dListed = << >>
  /\ dMeta = << >>
  /\ dResult = PendingResult
  /\ cFields = SampleFields
  /\ cForm = "compact"
  /\ cPlain = NotDecoded
  /\ cBase64 = NotDecoded
  /\ fState = InitialState
  /\ fDiscovering = FALSE
  /\ fFetching = FALSE
  /\ fConn = "idle"
  /\ fSel = "idle"
  /\ fSelIds = << >>
  /\ fAccess = NoAccessResult
  /\ fIssued = << >>
  /\ fVia = "none"
  /\ aSource = "BIG_QUERY"
  /\ aIds = << >>
  /\ aStored = Undecryptable
  /\ aPc = "done"
  /\ aCreds = UndefinedCreds
  /\ aTask = << >>
  /\ aCause = << >>
  /\ aResult = PendingPartition
  /\ mType = "BIG_QUERY"
  /\ mProject = FALSE
  /\ mStored = << >>
  /\ mCall = "none"
  /\ mFallback = "idle"
  /\ mSettings = FALSE
  /\ mDiscoveries = 0
  /\ bMode = "EDIT"
  /\ bProjectId = ""
  /\ bCredentials = "none"
  /\ bLocal = InitialLocalState
  /\ bValidating = "undefined"
  /\ bRequests = << >>
  /\ rState = InitialState
  /\ rCalls = << >>
  /\ rFetches = 0
  /\ rQuiet = FALSE
  /\ rOverlap = FALSE
  /\ PageInit

SpecPage == InitPage /\ [][PageNext]_vars

\* validateDatasetAccess of the metadata service.
InitAccess ==
  /\ vIds = << >>
  /\ vCreds = ObjectCreds
  /\ vTask = << >>
  /\ vCause = << >>
  /\ vOrder = << >>
  /\ vResult = PendingPartition
  /\ tSource = "BIG_QUERY"
  /\ tIds = << >>
  /\ tFetch = << >>
  /\ tPart = << >>
  /\ tOut = PendingTables
  /\ dEntry = "service"
  /\ dInput = [method |-> "none", hasProjectId |-> TRUE, creds |-> UndefinedCreds,
               type |-> "BIG_QUERY", stored |-> Undecryptable]
  /\ dPc = "done"
  /\ dCreds = UndefinedCreds
  /\ dFailure = NoFailure
  /\ dListed = << >>
  /\ dMeta = << >>
  /\ dResult = PendingResult
  /\ cFields = SampleFields
  /\ cForm = "compact"
  /\ cPlain = NotDecoded
  /\ cBase64 = NotDecoded
  /\ fState = InitialState
  /\ fDiscovering = FALSE
  /\ fFetching = FALSE
  /\ fConn = "idle"
  /\ fSel = "idle"
  /\ fSelIds = << >>
  /\ fAccess = NoAccessResult
  /\ fIssued = << >>
  /\ fVia = "none"
  /\ pVersion = "first"
  /\ pProps = FirstRender
  /\ pSelected = << >>
  /\ pManual = << >>
  /\ pPicked = << >>
  /\ pNext = NotSubmitted
  /\ mType = "BIG_QUERY"
  /\ mProject = FALSE
  /\ mStored = << >>
  /\ mCall = "none"
  /\ mFallback = "idle"
  /\ mSettings = FALSE
  /\ mDiscoveries = 0
  /\ bMode = "EDIT"
  /\ bProjectId = ""
  /\ bCredentials = "none"
  /\ bLocal = InitialLocalState
  /\ bValidating = "undefined"
  /\ bRequests = << >>
  /\ rState = InitialState
  /\ rCalls = << >>
  /\ rFetches = 0
  /\ rQuiet = FALSE
  /\ rOverlap = FALSE
  /\ AccessInit

SpecAccess == InitAccess /\ [][AccessNext]_vars

\* The models page: its hook driving the setup flow.
InitModels ==
  /\ vIds = << >>
  /\ vCreds = ObjectCreds
  /\ vTask = << >>
  /\ vCause = << >>
  /\ vOrder = << >>
  /\ vResult = PendingPartition
  /\ tSource = "BIG_QUERY"
  /\ tIds = << >>
  /\ tFetch = << >>
  /\ tPart = << >>
  /\ tOut = PendingTables
  /\ dEntry = "service"
  /\ dInput = [method |-> "none", hasProjectId |-> TRUE, creds |-> UndefinedCreds,
               type |-> "BIG_QUERY", stored |-> Undecryptable]
  /\ dPc = "done"
  /\ dCreds = UndefinedCreds
  /\ dFailure = NoFailure
  /\ dListed = << >>
  /\ dMeta = << >>
  /\ dResult = PendingResult
  /\ cFields = SampleFields
  /\ cForm = "compact"
  /\ cPlain = NotDecoded
  /\ cBase64 = NotDecoded
  /\ pVersion = "first"
  /\ pProps = FirstRender
  /\ pSelected = << >>
  /\ pManual = << >>
  /\ pPicked = << >>
  /\ pNext = NotSubmitted
  /\ aSource = "BIG_QUERY"
  /\ aIds = << >>
  /\ aStored = Undecryptable
  /\ aPc = "done"
  /\ aCreds = UndefinedCreds
  /\ aTask = << >>
  /\ aCause = << >>
  /\ aResult = PendingPartition
  /\ bMode = "EDIT"
  /\ bProjectId = ""
  /\ bCredentials = "none"
  /\ bLocal = InitialLocalState
  /\ bValidating = "undefined"
  /\ bRequests = << >>
  /\ rState = InitialState
  /\ rCalls = << >>
  /\ rFetches = 0
  /\ rQuiet = FALSE
  /\ rOverlap = FALSE
  /\ FlowInit
  /\ ModelsInit

SpecModels == InitModels /\ [][ModelsNext]_vars

\* The three batches of one server side by side: a validation of two datasets,
\* a table listing of two datasets and a discovery whose enumeration has just
\* given two datasets, all pending.
InitConcurrent ==
  /\ vIds = <<"a", "b">>
  /\ vCreds = StringCreds(SampleBase64)
  /\ vTask = <<"import", "import">>
  /\ vCause = <<"pending", "pending">>
  /\ vOrder = << >>
  /\ vResult = PendingPartition
  /\ tSource = "BIG_QUERY"
  /\ tIds = <<"d1", "d2">>
  /\ tFetch = <<PendingFetch, PendingFetch>>
  /\ tPart = <<PendingPart, PendingPart>>
  /\ tOut = PendingTables
  /\ dEntry = "service"
  /\ dInput = [method |-> "none", hasProjectId |-> TRUE, creds |-> StringCreds(SampleBase64),
               type |-> "BIG_QUERY", stored |-> Undecryptable]
  /\ dPc = "metadata"
  /\ dCreds = StringCreds(SampleBase64)
  /\ dFailure = NoFailure
  /\ dListed = <<"a", "b">>
  /\ dMeta = <<"pending", "pending">>
  /\ dResult = PendingResult
  /\ cFields = SampleFields
  /\ cForm = "compact"
  /\ cPlain = NotDecoded
  /\ cBase64 = NotDecoded
  /\ fState = InitialState
  /\ fDiscovering = FALSE
  /\ fFetching = FALSE
  /\ fConn = "idle"
  /\ fSel = "idle"
  /\ fSelIds = << >>
  /\ fAccess = NoAccessResult
  /\ fIssued = << >>
  /\ fVia = "none"
  /\ pVersion = "first"
  /\ pProps = FirstRender
  /\ pSelected = << >>
  /\ pManual = << >>
  /\ pPicked = << >>
  /\ pNext = NotSubmitted
  /\ aSource = "BIG_QUERY"
  /\ aIds = << >>
  /\ aStored = Undecryptable
  /\ aPc = "done"
  /\ aCreds = UndefinedCreds
  /\ aTask = << >>
  /\ aCause = << >>
  /\ aResult = PendingPartition
  /\ mType = "BIG_QUERY"
  /\ mProject = FALSE
  /\ mStored = << >>
  /\ mCall = "none"
  /\ mFallback = "idle"
  /\ mSettings = FALSE
  /\ mDiscoveries = 0
  /\ bMode = "EDIT"
  /\ bProjectId = ""
  /\ bCredentials = "none"
  /\ bLocal = InitialLocalState
  /\ bValidating = "undefined"
  /\ bRequests = << >>
  /\ rState = InitialState
  /\ rCalls = << >>
  /\ rFetches = 0
  /\ rQuiet = FALSE
  /\ rOverlap = FALSE

\* Each batched operation on its own over its inputs (the validation with at
\* most MaxBatch datasets), and the three side by side.
InitBatch ==
  \/ InitValidate /\ Len(vIds) <= MaxBatch
  \/ InitTables
  \/ InitDiscover
  \/ InitConcurrent
BatchNext == ValidateNext \/ TablesNext \/ DiscoverNext
SpecBatch == InitBatch /\ [][BatchNext]_vars

InitForm ==
  /\ vIds = << >>
  /\ vCreds = ObjectCreds
  /\ vTask = << >>
  /\ vCause = << >>
  /\ vOrder = << >>
  /\ vResult = PendingPartition
  /\ tSource = "BIG_QUERY"
  /\ tIds = << >>
  /\ tFetch = << >>
  /\ tPart = << >>
  /\ tOut = PendingTables
  /\ dEntry = "service"
  /\ dInput = [method |-> "none", hasProjectId |-> TRUE, creds |-> UndefinedCreds,
               type |-> "BIG_QUERY", stored |-> Undecryptable]
  /\ dPc = "done"
  /\ dCreds = UndefinedCreds
  /\ dFailure = NoFailure
  /\ dListed = << >>
  /\ dMeta = << >>
  /\ dResult = PendingResult
  /\ cFields = SampleFields
  /\ cForm = "compact"
  /\ cPlain = NotDecoded
  /\ cBase64 = NotDecoded
  /\ fState = InitialState
  /\ fDiscovering = FALSE
  /\ fFetching = FALSE
  /\ fConn = "idle"
  /\ fSel = "idle"
  /\ fSelIds = << >>
  /\ fAccess = NoAccessResult
  /\ fIssued = << >>
  /\ fVia = "none"
  /\ pVersion = "first"
  /\ pProps = FirstRender
  /\ pSelected = << >>
  /\ pManual = << >>
  /\ pPicked = << >>
  /\ pNext = NotSubmitted
  /\ aSource = "BIG_QUERY"
  /\ aIds = << >>
  /\ aStored = Undecryptable
  /\ aPc = "done"
  /\ aCreds = UndefinedCreds
  /\ aTask = << >>
  /\ aCause = << >>
  /\ aResult = PendingPartition
  /\ mType = "BIG_QUERY"
  /\ mProject = FALSE
  /\ mStored = << >>
  /\ mCall = "none"
  /\ mFallback = "idle"
  /\ mSettings = FALSE
  /\ mDiscoveries = 0
  /\ rState = InitialState
  /\ rCalls = << >>
  /\ rFetches = 0
  /\ rQuiet = FALSE
  /\ rOverlap = FALSE
  /\ FormInit

SpecForm == InitForm /\ [][FormNext]_vars

InitReentrant ==
  /\ vIds = << >>
  /\ vCreds = ObjectCreds
  /\ vTask = << >>
  /\ vCause = << >>
  /\ vOrder = << >>
  /\ vResult = PendingPartition
  /\ tSource = "BIG_QUERY"
  /\ tIds = << >>
  /\ tFetch = << >>
  /\ tPart = << >>
  /\ tOut = PendingTables
  /\ dEntry = "service"
  /\ dInput = [method |-> "none", hasProjectId |-> TRUE, creds |-> UndefinedCreds,
               type |-> "BIG_QUERY", stored |-> Undecryptable]
  /\ dPc = "done"
  /\ dCreds = UndefinedCreds
  /\ dFailure = NoFailure
  /\ dListed = << >>
  /\ dMeta = << >>
  /\ dResult = PendingResult
  /\ cFields = SampleFields
  /\ cForm = "compact"
  /\ cPlain = NotDecoded
  /\ cBase64 = NotDecoded
  /\ fState = InitialState
  /\ fDiscovering = FALSE
  /\ fFetching = FALSE
  /\ fConn = "idle"
  /\ fSel = "idle"
  /\ fSelIds = << >>
  /\ fAccess = NoAccessResult
  /\ fIssued = << >>
  /\ fVia = "none"
  /\ pVersion = "first"
  /\ pProps = FirstRender
  /\ pSelected = << >>
  /\ pManual = << >>
  /\ pPicked = << >>
  /\ pNext = NotSubmitted
  /\ aSource = "BIG_QUERY"
  /\ aIds = << >>
  /\ aStored = Undecryptable
  /\ aPc = "done"
  /\ aCreds = UndefinedCreds
  /\ aTask = << >>
  /\ aCause = << >>
  /\ aResult = PendingPartition
  /\ mType = "BIG_QUERY"
  /\ mProject = FALSE
  /\ mStored = << >>
  /\ mCall = "none"
  /\ mFallback = "idle"
  /\ mSettings = FALSE
  /\ mDiscoveries = 0
  /\ bMode = "EDIT"
  /\ bProjectId = ""
  /\ bCredentials = "none"
  /\ bLocal = InitialLocalState
  /\ bValidating = "undefined"
  /\ bRequests = << >>
  /\ ReentrantInit

SpecReentrant == InitReentrant /\ [][ReentrantNext]_vars

====
